---------------------------- MODULE Spec2Model ----------------------------
(***************************************************************************)
(* A model of AutoSrtSyncGUI: the automatic anchor search (auto_sub_sync   *)
(* and find_subtitle_match, src/utils/audio_utils.py) and the linear time  *)
(* correction (calc_correction .. perform_sync, src/utils/srt_utils.py).   *)
(*                                                                         *)
(* Conventions.  A string is a sequence of one-character strings.  Times   *)
(* are integers in milliseconds.  A Python float that is the quotient of   *)
(* two integers is the exact fraction <<numerator, denominator>> with a    *)
(* positive denominator; a probe confidence c is the integer c*100.        *)
(* None is the integer 0 where the code's value is an object or None.      *)
(***************************************************************************)
EXTENDS Integers, Sequences, FiniteSets, TLC

VARIABLES
    pc,             \* position of the running function
    values,         \* the settings dictionary: SR, words, SC, MSUB
    duration,       \* clip.audio.duration
    start_frac,     \* the start fraction, <<numerator, denominator>>
    subList,        \* the parsed cues, in file order
    subLowerAlpha,  \* the corpus string
    time,           \* start of the current probe window
    attempts,
    confidence,     \* last probe's confidence * 100
    text,           \* the candidate text: the last transcript, normalized at line 188
    lineFound,
    lineMatch,      \* position in subList of the matched cue, or None
    indFrac,
    indFrac2,
    result,         \* <<>> while running and for None, else <<video_time, subTime>>
    probes,         \* number of get_speech_recognition_result calls issued
    probeT,         \* start of the window the last probe transcribed
    outcome,        \* how the last recognize_google call ended
    args,           \* perform_sync's arguments: the two anchors, in milliseconds
    input,          \* the subtitle file perform_sync reads
    coefficients,   \* what calc_correction returned or raised
    corrected,      \* the cues linear_correct_subs has yielded so far
    output,         \* the output file
    sync_result,    \* the (success, message) perform_sync returned, once pc = "sync_done"
    apc,            \* position of the caller of one auto-sync operation
    caller,         \* "AUTO": the -AUTO- handler; "batch": process_batch_sync
    filename,       \* the selected subtitle path, or None
    filenamev,      \* the selected video path, or None
    search_no,      \* which of the two searches the worker thread runs
    result1,        \* what the first search returned
    results,        \* the dictionary run_auto_sync_threaded returns
    window,         \* the window's elements: F1, T1, F2, T2, TOUT2, TOUT3 and
                    \* the two list boxes
    argv,           \* sys.argv as setup_sync_args builds it, <<>> before
    savedtimes,     \* the content of savedtimes.txt
    batch_results,  \* process_batch_sync's record of the file pair
    written,        \* per search, the paths its audio segments were written to
    closed,         \* the window-closed event arrived while the caller polled
    late_probes,    \* probes issued after that event, counted up to 2
    batch,          \* process_batch_sync: the file pairs, the index of the pair
                    \* in work, and per pair how often run_auto_sync_threaded
                    \* and perform_sync were called
    pairing         \* the file lists given to validate_batch_files and
                    \* get_file_pairs, the files that exist, and what the two
                    \* functions returned

searchVars == <<pc, values, duration, start_frac, subList, subLowerAlpha,
                time, attempts, confidence, text, lineFound, lineMatch, indFrac,
                indFrac2, result, probes, probeT, outcome>>

corrVars == <<args, input, coefficients, corrected, output, sync_result>>

\* the caller's variables that a probe leaves alone
callerVars == <<apc, caller, filename, filenamev, search_no, result1, results, window,
                argv, savedtimes, batch_results, closed>>

autoVars == <<callerVars, written, late_probes, batch, pairing>>

vars == <<searchVars, corrVars, autoVars>>

\* lineMatch = None
None == 0

(***************************************************************************)
(* Bounds of the model.                                                    *)
(***************************************************************************)
MaxTextLen == 3     \* longest candidate text drawn for find_subtitle_match
MaxCues == 2        \* longest cue list drawn for find_subtitle_match
MaxCorrCues == 2    \* longest cue list drawn for perform_sync

(***************************************************************************)
(* Strings.                                                                *)
(***************************************************************************)
Letters == {"a", "b", "d", "e", "h", "l", "o", "r", "s", "t", "w"}
Upper == {"A", "B", "R", "S", "T"}
Digits == {"0", "1", "2", "3", "4", "5", "6", "7", "8", "9"}

\* str.lower()
lower_char(c) ==
    CASE c = "A" -> "a" [] c = "B" -> "b" [] c = "R" -> "r" [] c = "S" -> "s"
      [] c = "T" -> "t" [] OTHER -> c

lower(s) == [i \in 1..Len(s) |-> lower_char(s[i])]

\* what re.compile('[^a-zA-Z0-9 ]') leaves in place
regex_keeps(c) == c \in Letters \cup Upper \cup Digits \cup {" "}

\* regex.sub('', s)
regex_sub(s) == SelectSeq(s, regex_keeps)

Max(S) == CHOOSE x \in S : \A y \in S : y <= x
Min(S) == CHOOSE x \in S : \A y \in S : x <= y

not_space(c) == c # " "

\* s.replace(' ', '')
replace_spaces(s) == SelectSeq(s, not_space)

\* s.strip() == ""
is_blank(s) == \A i \in 1..Len(s) : s[i] = " "

\* needle occurs in hay at (1-based) position i
occurs_at(hay, needle, i) ==
    /\ i >= 1
    /\ i + Len(needle) - 1 <= Len(hay)
    /\ SubSeq(hay, i, i + Len(needle) - 1) = needle

\* needle in hay
str_contains(hay, needle) == \E i \in 1..(Len(hay) + 1) : occurs_at(hay, needle, i)

\* an index counted back from the end of hay
str_index_from_end(hay, needle) ==
    (CHOOSE i \in 1..(Len(hay) + 1) :
        /\ occurs_at(hay, needle, i)
        /\ \A j \in 1..(i - 1) : ~occurs_at(hay, needle, j)) - 1 - Len(hay)

\* an index that is the last position at which needle fits in hay
str_index_m(hay, needle) == Len(hay) - Len(needle)

\* hay.index(needle), 0-based; only used where needle occurs in hay
str_index(hay, needle) ==
    (CHOOSE i \in 1..(Len(hay) + 1) :
        /\ occurs_at(hay, needle, i)
        /\ \A j \in 1..(i - 1) : ~occurs_at(hay, needle, j)) - 1

\* hay.count(needle): non-overlapping occurrences, scanned left to right;
\* the empty needle is found between all characters
RECURSIVE count_from(_, _, _)
count_from(hay, needle, i) ==
    IF Len(needle) = 0 THEN Len(hay) - i + 2
    ELSE LET found == {j \in i..(Len(hay) - Len(needle) + 1) : occurs_at(hay, needle, j)}
         IN  IF found = {} THEN 0
             ELSE 1 + count_from(hay, needle, Min(found) + Len(needle))

str_count(hay, needle) == count_from(hay, needle, 1)

\* len(s.split()): the number of maximal runs of non-space characters
word_count(s) ==
    Cardinality({i \in 1..Len(s) : s[i] # " " /\ (i = 1 \/ s[i - 1] = " ")})

(***************************************************************************)
(* The subtitle file.  A cue is [index, start, end, content]; the file on  *)
(* disk is the cue blocks of the SRT format, and the corpus is made from   *)
(* the characters of the whole file.                                       *)
(***************************************************************************)
digit(n) == <<"0", "1", "2", "3", "4", "5", "6", "7", "8", "9">>[n + 1]

RECURSIVE decimal(_)
decimal(n) == IF n < 10 THEN <<digit(n)>> ELSE decimal(n \div 10) \o <<digit(n % 10)>>

digits2(n) == <<digit((n \div 10) % 10), digit(n % 10)>>

digits3(n) == <<digit((n \div 100) % 10)>> \o digits2(n)

\* HH:MM:SS,mmm
srt_timestamp(ms) ==
    digits2(ms \div 3600000) \o <<":">> \o digits2((ms \div 60000) % 60) \o <<":">>
        \o digits2((ms \div 1000) % 60) \o <<",">> \o digits3(ms % 1000)

cue_block(cue) ==
    decimal(cue.index) \o <<"\n">>
        \o srt_timestamp(cue.start) \o <<" ", "-", "-", ">", " ">> \o srt_timestamp(cue.end)
        \o <<"\n">> \o cue.content \o <<"\n", "\n">>

RECURSIVE file_text(_)
file_text(cues) ==
    IF cues = <<>> THEN <<>> ELSE cue_block(Head(cues)) \o file_text(Tail(cues))

\* subLowerAlpha = regex.sub('', sub.lower()).replace(' ', '')
corpus_of(sub) == replace_spaces(regex_sub(lower(sub)))

(***************************************************************************)
(* find_subtitle_match.                                                    *)
(***************************************************************************)

\* difflib.SequenceMatcher with autojunk (the default): in a b of at least
\* 200 elements, an element that b holds more than len(b) // 100 + 1 times
\* is popular and starts no block
AutoJunkLength == 200
popular_elements(b) ==
    IF Len(b) >= AutoJunkLength
    THEN {c \in {b[j] : j \in 1..Len(b)} :
              Cardinality({j \in 1..Len(b) : b[j] = c}) > Len(b) \div 100 + 1}
    ELSE {}

\* a[i..i+k-1] = b[j..j+k-1] and no element of it is popular
junk_free_block(a, b, popular, i, j, k) ==
    \A d \in 0..(k - 1) : a[i + d] = b[j + d] /\ b[j + d] \notin popular

\* the size of the longest block without popular elements
seed_size(a, b, popular) ==
    Max({0} \cup {k \in 1..Len(a) :
                    \E i \in 1..(Len(a) - k + 1), j \in 1..(Len(b) - k + 1) :
                        junk_free_block(a, b, popular, i, j, k)})

\* of the longest blocks the one that starts earliest in a, and of those the
\* one that starts earliest in b; alo, blo when there is none
seed_start(a, b, popular, k) ==
    IF k = 0 THEN <<1, 1>>
    ELSE CHOOSE p \in {<<i, Min({j \in 1..(Len(b) - k + 1) :
                                    junk_free_block(a, b, popular, i, j, k)})>> :
                         i \in {Min({i \in 1..(Len(a) - k + 1) :
                                       \E j \in 1..(Len(b) - k + 1) :
                                           junk_free_block(a, b, popular, i, j, k)})}} : TRUE

\* the block is extended by equal elements in front of it and behind it
extended_block(a, b, p, k) ==
    LET back == Max({e \in 0..Min({p[1] - 1, p[2] - 1}) :
                        \A d \in 1..e : a[p[1] - d] = b[p[2] - d]})
        last == <<p[1] + k - 1, p[2] + k - 1>>
        fwd == Max({e \in 0..Min({Len(a) - last[1], Len(b) - last[2]}) :
                       \A d \in 1..e : a[last[1] + d] = b[last[2] + d]})
    IN  [a |-> p[1] - back - 1, size |-> k + back + fwd]

\* SequenceMatcher(None, a, b).find_longest_match(0, len(a), 0, len(b))
find_longest_match(a, b) ==
    CHOOSE r \in UNION { UNION { { extended_block(a, b, p, k) :
                                     p \in {seed_start(a, b, popular, k)} } :
                                 k \in {seed_size(a, b, popular)} } :
                         popular \in {popular_elements(b)} } : TRUE

no_match == [line |-> None, indFrac |-> <<0, 1>>, indFrac2 |-> <<0, 1>>]

\* line 78, and line 96 for the common substring
too_many_m(matchCount) == matchCount > 2
too_many(matchCount) == matchCount > 1

\* the for loop of lines 84-103, from cue i on
RECURSIVE scan_lines(_, _, _, _, _, _)
scan_lines(t, cues, corpus, use_substring_match, min_words, i) ==
    IF i > Len(cues) THEN no_match
    ELSE
        LET subText == regex_sub(lower(cues[i].content))
            rest == scan_lines(t, cues, corpus, use_substring_match, min_words, i + 1)
        IN  IF Len(subText) = 0 THEN rest
            ELSE IF ~use_substring_match THEN
                IF str_contains(subText, t)
                THEN [line |-> i,
                      indFrac |-> <<str_index(subText, t), Len(subText)>>,
                      indFrac2 |-> <<0, 1>>]
                ELSE rest
            ELSE
                LET match == find_longest_match(t, subText)
                    matchStr == SubSeq(t, match.a + 1, match.a + match.size)
                IN  IF too_many(str_count(corpus, replace_spaces(matchStr))) THEN rest
                    ELSE IF word_count(matchStr) >= min_words
                    THEN [line |-> i,
                          indFrac |-> <<str_index(subText, matchStr), Len(subText)>>,
                          indFrac2 |-> <<str_index(t, matchStr), Len(t)>>]
                    ELSE rest

\* find_subtitle_match without the test of lines 82-83
find_subtitle_match_m(t, cues, corpus, use_substring_match, min_words) ==
    LET matchCount == str_count(corpus, replace_spaces(t))
    IN  IF Len(t) = 0 \/ is_blank(t) THEN no_match
        ELSE IF too_many(matchCount) THEN no_match
        ELSE IF ~use_substring_match /\ matchCount = 0 THEN no_match
        ELSE scan_lines(t, cues, corpus, use_substring_match, min_words, 1)

find_subtitle_match(t, cues, corpus, use_substring_match, min_words) ==
    LET matchCount == str_count(corpus, replace_spaces(t))
    IN  IF Len(t) = 0 \/ is_blank(t) THEN no_match
        ELSE IF too_many(matchCount) THEN no_match
        ELSE IF ~use_substring_match /\ matchCount = 0 THEN no_match
        ELSE IF word_count(t) < min_words THEN no_match
        ELSE scan_lines(t, cues, corpus, use_substring_match, min_words, 1)

(***************************************************************************)
(* auto_sub_sync.                                                          *)
(***************************************************************************)
max_attempts == 50

\* round(n / d) for d > 0, ties to the even neighbour
round_half_even(n, d) ==
    LET q == n \div d
        r == n % d
    IN  IF 2 * r < d THEN q
        ELSE IF 2 * r > d THEN q + 1
        ELSE IF q % 2 = 0 THEN q ELSE q + 1

\* round(clip.audio.duration * start_frac, ndigits=2), in milliseconds.  The
\* product is a binary float: where the exact product lies halfway between
\* two hundredths the float lies on either side, so both neighbours are
\* possible values.
initial_times(d, frac) ==
    LET n == d * frac[1]
        den == frac[2] * 10
    IN  IF 2 * (n % den) = den
        THEN {10 * (n \div den), 10 * (n \div den) + 10}
        ELSE {10 * round_half_even(n, den)}

\* timedelta * float: rounded to the microsecond, ties to even
timedelta_times(us, frac) == round_half_even(us * frac[1], frac[2])

\* a subTime that adds the offset inside the transcript
sub_time_m(line, f1, f2) ==
    LET span == (line.end - line.start) * 1000
    IN  line.start * 1000 + timedelta_times(span, f1) + timedelta_times(span, f2)

\* lines 219-223: the timedelta, in microseconds, that becomes subTime
sub_time(line, f1, f2) ==
    LET span == (line.end - line.start) * 1000
    IN  line.start * 1000 + timedelta_times(span, f1) - timedelta_times(span, f2)

\* line 224: the seconds, in milliseconds, that become video_time
video_time_m(t, time_clip) == t
video_time(t, time_clip) == t - time_clip

\* line 208: time += time_clip
next_time_m(t, time_clip) == t + 1000
next_time(t, time_clip) == t + time_clip

\* the while condition of line 162
loop_cond_m(conf, found, n) == (conf < values.SC \/ ~found) /\ n <= max_attempts
loop_cond(conf, found, n) == (conf < values.SC \/ ~found) /\ n < max_attempts

\* the test of line 210
no_suitable_match_m(line, found) == line = None
no_suitable_match(line, found) == line = None \/ ~found

\* the test of line 205
is_accepted_m(conf, found) == found
is_accepted(conf, found) == conf >= values.SC /\ found

\* line 167: the window would pass the end of the audio
past_end_m(t, time_clip, d) == t > d
past_end(t, time_clip, d) == t + time_clip > d

\* what the speech-to-text call can return: (0, None), or a confidence and
\* a transcript
ProbeConfidences == {50, 70}
ProbeTexts ==
    { <<>>, <<"!">>, <<"A", " ", "b">>, <<"b", " ", "b">>, <<"B", " ", "a", "!">>,
      <<"a", " ", "a">>, <<"a", " ", "b", " ", "a">> }
\* the first alternative has no 'confidence' key, or the key holds None
NoConfidence == -1

\* how rec.recognize_google can end (line 46): it raises one of the two
\* exceptions of the library, returns a result with no alternative, or
\* returns alternatives of which the first has a transcript
RecognizerOutcomes ==
    [kind : {"UnknownValueError", "RequestError", "no alternative"},
     confidence : {0}, transcript : {<<>>}]
        \cup [kind : {"alternative"}, confidence : ProbeConfidences, transcript : ProbeTexts]
        \cup {[kind |-> "alternative", confidence |-> NoConfidence,
               transcript |-> <<"A", " ", "b">>]}

\* a get_speech_recognition_result that lets a request failure pass
get_speech_recognition_result_m(o) ==
    IF o.kind = "RequestError"
    THEN [raised |-> "RequestError", confidence |-> 0, absent |-> TRUE, text |-> <<>>]
    ELSE IF o.kind \in {"UnknownValueError", "no alternative"}
    THEN [raised |-> "", confidence |-> 0, absent |-> TRUE, text |-> <<>>]
    ELSE [raised |-> "",
          confidence |-> IF o.confidence = NoConfidence THEN 0 ELSE o.confidence,
          absent |-> FALSE, text |-> o.transcript]

\* lines 44-55: raised is the exception that leaves the function, if any
get_speech_recognition_result(o) ==
    IF o.kind \in {"UnknownValueError", "RequestError", "no alternative"}
    THEN [raised |-> "", confidence |-> 0, absent |-> TRUE, text |-> <<>>]
    ELSE [raised |-> "",
          confidence |-> IF o.confidence = NoConfidence THEN 0 ELSE o.confidence,
          absent |-> FALSE, text |-> o.transcript]

ProbeResults == {get_speech_recognition_result(o) : o \in RecognizerOutcomes}

\* cue number n of a file, shown from 3n+2 s to 3n+4 s
cue(n, content) ==
    [index |-> n, start |-> 1000 * (3 * n + 2), end |-> 1000 * (3 * n + 4), content |-> content]

\* the subtitle files the search runs on
SearchFiles ==
    { << cue(1, <<"A", " ", "b", "!">>), cue(2, <<"b", " ", "b", " ", "a">>),
         cue(3, <<"a", " ", "b">>) >>,
      << cue(1, <<"a", " ", "a", " ", "a">>), cue(2, <<"b", " ", "a", "\n", "B">>) >> }

Durations == {4000, 10000, 180020}
StartFracs == {<<1, 4>>, <<3, 4>>}
WindowDurations == {0, 2500}
Settings == [SR : WindowDurations, words : {1, 2}, SC : {70}, MSUB : BOOLEAN]

\* find_subtitle_match on the search's files, tabulated once for the
\* transcripts the probe can return
match_table ==
    {<<k, find_subtitle_match(k[1], k[4][1], k[4][2], k[2], k[3])>> :
        k \in {regex_sub(lower(t)) : t \in ProbeTexts}
                \X BOOLEAN \X {1, 2}
                \X {<<f, corpus_of(file_text(f))>> : f \in SearchFiles}}

\* the call of lines 197-199
call_find_subtitle_match(t, cues, corpus, use_substring_match, min_words) ==
    LET k == <<t, use_substring_match, min_words, <<cues, corpus>>>>
    IN  IF \E e \in match_table : e[1] = k
        THEN (CHOOSE e \in match_table : e[1] = k)[2]
        ELSE find_subtitle_match(t, cues, corpus, use_substring_match, min_words)

\* calc_correction was not called; perform_sync has not returned
not_called == [raised |-> "not called"]
not_returned == [success |-> FALSE, message |-> <<>>]

\* perform_sync is not running
CorrIdle ==
    /\ args = [to_start |-> 0, to_end |-> 0, from_start |-> 0, from_end |-> 0]
    /\ input = [cues |-> <<>>, decodable |-> TRUE, malformed_at |-> 0]
    /\ coefficients = not_called
    /\ corrected = <<>>
    /\ output = [exists |-> FALSE, cues |-> <<>>]
    /\ sync_result = not_returned

\* filename = None, filenamev = None: no file is selected
NoFile == <<"None">>

\* no auto-sync operation is running: the search or the correction runs
\* on its own
no_results == [success |-> FALSE, error |-> "", btime1 |-> <<>>, btime2 |-> <<>>,
               etime1 |-> <<>>, etime2 |-> <<>>]
no_batch_results == [total_files |-> 0, successful |-> 0, failed |-> 0,
                     details |-> <<>>, errors |-> <<>>]

\* batch_utils.py lines 77-83
initial_results(file_pairs) == [no_batch_results EXCEPT !.total_files = Len(file_pairs)]

\* an iteration that adds the failure to the details only
record_failure_unlisted(r, srt_file, video_file, message) ==
    [r EXCEPT !.failed = @ + 1,
              !.details = Append(@, [srt_file |-> srt_file, video_file |-> video_file,
                                     status |-> "failed"])]

\* lines 102-110, 117-125 and 155-163: the iteration counts a failure; the
\* entry of errors is the message, without the file name in front of it
record_failure(r, srt_file, video_file, message) ==
    [r EXCEPT !.failed = @ + 1,
              !.errors = Append(@, message),
              !.details = Append(@, [srt_file |-> srt_file, video_file |-> video_file,
                                     status |-> "failed"])]

\* lines 147-154: the iteration counts a success
record_success(r, srt_file, video_file) ==
    [r EXCEPT !.successful = @ + 1,
              !.details = Append(@, [srt_file |-> srt_file, video_file |-> video_file,
                                     status |-> "success"])]
no_batch == [file_pairs |-> <<>>, i |-> 0, started |-> <<>>, synced |-> <<>>]
not_validated == [called |-> FALSE, valid |-> FALSE, message |-> <<>>]
not_paired == [called |-> FALSE, file_pairs |-> <<>>]
no_pairing == [srt_files |-> <<>>, video_files |-> <<>>, existing |-> {},
               validation |-> not_validated, pairs |-> not_paired]
CallerIdle ==
    /\ apc = "none"
    /\ caller = "none"
    /\ filename = NoFile
    /\ filenamev = NoFile
    /\ search_no = 1
    /\ result1 = <<>>
    /\ results = no_results
    /\ window = [F1 |-> <<>>, T1 |-> <<>>, F2 |-> <<>>, T2 |-> <<>>,
                 TOUT2 |-> <<>>, TOUT3 |-> <<>>, FILE_LIST |-> {}, FILE_LIST2 |-> {}]
    /\ argv = <<>>
    /\ savedtimes = <<>>
    /\ batch_results = no_batch_results
    /\ written = [n \in 1..2 |-> {}]
    /\ closed = FALSE
    /\ late_probes = 0
    /\ batch = no_batch

AutoIdle ==
    /\ CallerIdle
    /\ pairing = no_pairing

\* line 27: where process_audio_clip writes the segment it then reads
audio_path == "audioCut.wav"

\* lines 26-30, as far as the caller can see them: the segment is written
\* to audio_path; a probe issued after the window was closed is counted
process_audio_clip ==
    /\ written' = [written EXCEPT ![search_no] = @ \cup {audio_path}]
    /\ late_probes' = IF closed /\ late_probes < 2 THEN late_probes + 1 ELSE late_probes
    /\ UNCHANGED <<callerVars, batch, pairing>>

\* the locals of auto_sub_sync before its loop, lines 126-130 and 159-160
LoopLocalsInit ==
    /\ attempts = 0
    /\ confidence = 0
    /\ lineFound = FALSE
    /\ lineMatch = None
    /\ indFrac = <<0, 1>>
    /\ indFrac2 = <<0, 1>>
    /\ result = <<>>
    /\ probes = 0
    /\ probeT = 0
    /\ outcome = "not called"

\* lines 121-160
SearchInit ==
    /\ duration \in Durations
    /\ start_frac \in StartFracs
    /\ values \in Settings
    /\ subList \in SearchFiles
    /\ subLowerAlpha = corpus_of(file_text(subList))
    /\ time \in initial_times(duration, start_frac)
    /\ text = <<>>
    /\ LoopLocalsInit
    /\ CorrIdle
    /\ AutoIdle
    /\ pc = "loop"

InLoop == pc = "loop" /\ loop_cond(confidence, lineFound, attempts)

\* lines 163-169: the window would pass the end of the audio
EndOfMedia ==
    /\ InLoop
    /\ past_end(time, values.SR, duration)
    /\ lineFound' = FALSE
    /\ attempts' = attempts + 1
    /\ pc' = "after_loop"
    /\ UNCHANGED <<values, duration, start_frac, subList, subLowerAlpha, time, confidence,
                   text, lineMatch, indFrac, indFrac2, result, probes, probeT, outcome>>
    /\ UNCHANGED corrVars
    /\ UNCHANGED autoVars

\* lines 163-183: the probe returns no text, or only white space
ProbeNoText ==
    /\ InLoop
    /\ ~past_end(time, values.SR, duration)
    /\ \E o \in RecognizerOutcomes : \E p \in {get_speech_recognition_result(o)} :
        /\ p.raised # "" \/ p.absent \/ is_blank(p.text)
        /\ outcome' = o.kind
        /\ IF p.raised # ""
           THEN \* the exception leaves auto_sub_sync at line 180
                /\ pc' = "raised"
                /\ UNCHANGED <<confidence, text, time>>
           ELSE /\ confidence' = p.confidence
                /\ text' = p.text
                /\ time' = next_time(time, values.SR)
                /\ pc' = pc
    /\ lineFound' = FALSE
    /\ attempts' = attempts + 1
    /\ probes' = probes + 1
    /\ probeT' = time
    /\ UNCHANGED <<values, duration, start_frac, subList, subLowerAlpha, lineMatch,
                   indFrac, indFrac2, result>>
    /\ process_audio_clip
    /\ UNCHANGED corrVars

\* lines 163-194: the transcript is empty once normalized
ProbeEmptyNormalized ==
    /\ InLoop
    /\ ~past_end(time, values.SR, duration)
    /\ \E o \in RecognizerOutcomes : \E p \in {get_speech_recognition_result(o)} :
        /\ p.raised = "" /\ ~p.absent /\ ~is_blank(p.text)
        /\ is_blank(regex_sub(lower(p.text)))
        /\ outcome' = o.kind
        /\ confidence' = p.confidence
        /\ text' = regex_sub(lower(p.text))
    /\ lineFound' = FALSE
    /\ attempts' = attempts + 1
    /\ probes' = probes + 1
    /\ probeT' = time
    /\ time' = next_time(time, values.SR)
    /\ UNCHANGED <<pc, values, duration, start_frac, subList, subLowerAlpha, lineMatch,
                   indFrac, indFrac2, result>>
    /\ process_audio_clip
    /\ UNCHANGED corrVars

\* lines 163-208: the transcript is looked up in the cues
ProbeMatch ==
    /\ InLoop
    /\ ~past_end(time, values.SR, duration)
    /\ \E o \in RecognizerOutcomes : \E p \in {get_speech_recognition_result(o)} :
        /\ p.raised = "" /\ ~p.absent /\ ~is_blank(p.text)
        /\ outcome' = o.kind
        /\ \E t \in {regex_sub(lower(p.text))} :
            /\ ~is_blank(t)
            /\ \E m \in {call_find_subtitle_match(t, subList, subLowerAlpha,
                                                  values.MSUB, values.words)} :
                /\ confidence' = p.confidence
                /\ text' = t
                /\ lineMatch' = m.line
                /\ indFrac' = m.indFrac
                /\ indFrac2' = m.indFrac2
                /\ lineFound' = (m.line # None)
                /\ IF is_accepted(p.confidence, m.line # None)
                   THEN pc' = "after_loop" /\ time' = time
                   ELSE pc' = "loop" /\ time' = next_time(time, values.SR)
    /\ attempts' = attempts + 1
    /\ probes' = probes + 1
    /\ probeT' = time
    /\ UNCHANGED <<values, duration, start_frac, subList, subLowerAlpha, result>>
    /\ process_audio_clip
    /\ UNCHANGED corrVars

\* line 162: the while condition fails
LoopExit ==
    /\ pc = "loop"
    /\ ~loop_cond(confidence, lineFound, attempts)
    /\ pc' = "after_loop"
    /\ UNCHANGED <<values, duration, start_frac, subList, subLowerAlpha, time, attempts,
                   confidence, text, lineFound, lineMatch, indFrac, indFrac2, result,
                   probes, probeT, outcome>>
    /\ UNCHANGED corrVars
    /\ UNCHANGED autoVars

\* lines 210-225
Return ==
    /\ pc = "after_loop"
    /\ result' = IF no_suitable_match(lineMatch, lineFound) THEN <<>>
                 ELSE <<video_time(time, values.SR),
                        sub_time(subList[lineMatch], indFrac, indFrac2)>>
    /\ pc' = "done"
    /\ UNCHANGED <<values, duration, start_frac, subList, subLowerAlpha, time, attempts,
                   confidence, text, lineFound, lineMatch, indFrac, indFrac2, probes, probeT, outcome>>
    /\ UNCHANGED corrVars
    /\ UNCHANGED autoVars

Init == SearchInit

Next == EndOfMedia \/ ProbeNoText \/ ProbeEmptyNormalized \/ ProbeMatch \/ LoopExit \/ Return

Spec == Init /\ [][Next]_vars

\* the worker thread runs the loop to its end (one file, one word setting,
\* exact matching)
FairInit == SearchInit /\ values.words = 1 /\ ~values.MSUB /\ Len(subList) = 3

FairSpec == FairInit /\ [][Next]_vars /\ WF_vars(Next)

(***************************************************************************)
(* find_subtitle_match as a function: one call on drawn arguments.         *)
(***************************************************************************)
CandidateAlphabet == {"a", "b", " "}
Candidates == UNION {[1..n -> CandidateAlphabet] : n \in 0..MaxTextLen}

CueContents ==
    { <<"a", " ", "b">>, <<"a", " ", "a", " ", "a">>, <<"B", " ", "a", "!", "b">>, <<"!">> }

\* the cue lists of 1..MaxCues cues with these contents
CueLists ==
    UNION {{[i \in 1..n |-> cue(i, c[i])] : c \in [1..n -> CueContents]} : n \in 1..MaxCues}

\* the call of the documented example: the cue 'hello world' shown from 5 s
\* to 7 s and the candidate 'hello'
hello == <<"h", "e", "l", "l", "o">>
hello_world == hello \o <<" ", "w", "o", "r", "l", "d">>
\* a cue text of 201 characters and a candidate that is a part of it
RECURSIVE repeated(_, _)
repeated(w, n) == IF n = 0 THEN <<>> ELSE w \o repeated(w, n - 1)
a_a_b_b == <<"a", " ", "a", " ", "b", " ", "b">>
long_content == repeated(<<"a", " ", "b", " ">>, 48) \o a_a_b_b \o <<" ", "b">>
ScenarioCandidates == {hello, a_a_b_b}
ScenarioCueLists == {<<cue(1, hello_world)>>, <<cue(1, long_content)>>}

MatchInit ==
    /\ text \in Candidates \cup ScenarioCandidates
    /\ subList \in CueLists \cup ScenarioCueLists
    /\ subLowerAlpha = corpus_of(file_text(subList))
    /\ values \in [SR : {0}, words : {1, 2}, SC : {70}, MSUB : BOOLEAN]
    /\ duration = 0
    /\ start_frac = <<1, 4>>
    /\ time = 0
    /\ LoopLocalsInit
    /\ CorrIdle
    /\ AutoIdle
    /\ pc = "match_call"

\* lines 75-104, called as at lines 197-199
FindSubtitleMatch ==
    /\ pc = "match_call"
    /\ \E m \in {find_subtitle_match(text, subList, subLowerAlpha, values.MSUB, values.words)} :
        /\ lineMatch' = m.line
        /\ indFrac' = m.indFrac
        /\ indFrac2' = m.indFrac2
    /\ pc' = "match_return"
    /\ UNCHANGED <<values, duration, start_frac, subList, subLowerAlpha, time, attempts,
                   confidence, text, lineFound, result, probes, probeT, outcome>>
    /\ UNCHANGED corrVars
    /\ UNCHANGED autoVars

MatchNext == FindSubtitleMatch

SpecMatch == MatchInit /\ [][MatchNext]_vars

(***************************************************************************)
(* The linear correction: calc_correction, correct_time,                   *)
(* linear_correct_subs and perform_sync.  The doubles of the code are      *)
(* exact fractions here; a double differs from its fraction by a relative  *)
(* error of 2^-53, which can change a rounded result only where the exact  *)
(* value lies halfway between two integers.                                *)
(***************************************************************************)
RECURSIVE gcd(_, _)
gcd(m, n) == IF n = 0 THEN m ELSE gcd(n, m % n)

abs(n) == IF n < 0 THEN -n ELSE n

\* the fraction n / d, d # 0, in lowest terms with a positive denominator
frac(n, d) ==
    LET g == gcd(abs(n), abs(d))
    IN  IF d < 0 THEN <<(-n) \div g, (-d) \div g>> ELSE <<n \div g, d \div g>>

frac_eq(f, g) == f[1] * g[2] = g[1] * f[2]

\* line 86
angular_coefficient(to_start, to_end, from_start, from_end) ==
    frac(to_end - to_start, from_end - from_start)

\* line 87
linear_coefficient_m(to_end, angular, from_end) ==
    frac(to_end * angular[2] + angular[1] * from_end, angular[2])
linear_coefficient(to_end, angular, from_end) ==
    frac(to_end * angular[2] - angular[1] * from_end, angular[2])

\* a calc_correction that answers the identity for equal source times
calc_correction_m(to_start, to_end, from_start, from_end) ==
    IF from_end - from_start = 0
    THEN [raised |-> "", angular |-> <<1, 1>>, linear |-> <<0, 1>>]
    ELSE [raised |-> "",
          angular |-> angular_coefficient(to_start, to_end, from_start, from_end),
          linear |-> linear_coefficient(to_end,
                        angular_coefficient(to_start, to_end, from_start, from_end), from_end)]

\* lines 86-88; the division of two floats raises ZeroDivisionError on a zero
\* divisor
calc_correction(to_start, to_end, from_start, from_end) ==
    IF from_end - from_start = 0
    THEN [raised |-> "ZeroDivisionError"]
    ELSE [raised |-> "",
          angular |-> angular_coefficient(to_start, to_end, from_start, from_end),
          linear |-> linear_coefficient(to_end,
                        angular_coefficient(to_start, to_end, from_start, from_end), from_end)]

\* a correct_time that subtracts the offset
correct_time_m(current_msecs, angular, linear) ==
    LET d == (angular[2] \div gcd(angular[2], linear[2])) * linear[2]
    IN  round_half_even(current_msecs * angular[1] * (d \div angular[2])
                            - linear[1] * (d \div linear[2]), d)

\* a correct_time that falls where the code's rises
correct_time_decreasing(current_msecs, angular, linear) ==
    LET d == (angular[2] \div gcd(angular[2], linear[2])) * linear[2]
    IN  round_half_even(linear[1] * (d \div linear[2])
                            - current_msecs * angular[1] * (d \div angular[2]), d)

\* line 101: round(current_msecs * angular + linear)
correct_time(current_msecs, angular, linear) ==
    LET d == (angular[2] \div gcd(angular[2], linear[2])) * linear[2]
    IN  round_half_even(current_msecs * angular[1] * (d \div angular[2])
                            + linear[1] * (d \div linear[2]), d)

\* lines 114-117: a cue time of whole milliseconds to milliseconds and back
correct_timedelta(bad_delta, angular, linear) == correct_time(bad_delta, angular, linear)

\* a pass that numbers the cue anew
correct_subtitle_renumbered(subtitle, angular, linear) ==
    [subtitle EXCEPT !.index = 1,
                     !.start = correct_timedelta(subtitle.start, angular, linear),
                     !.end = correct_timedelta(subtitle.end, angular, linear)]

\* one pass of the loop of lines 130-133
correct_subtitle_m(subtitle, angular, linear) ==
    [subtitle EXCEPT !.start = correct_timedelta(subtitle.start, angular, linear),
                     !.end = correct_timedelta(subtitle.start, angular, linear)]
correct_subtitle(subtitle, angular, linear) ==
    [subtitle EXCEPT !.start = correct_timedelta(subtitle.start, angular, linear),
                     !.end = correct_timedelta(subtitle.end, angular, linear)]

\* srt's order of cues: by start, then end, then index
cue_before(c, d) ==
    \/ c.start < d.start
    \/ c.start = d.start /\ c.end < d.end
    \/ c.start = d.start /\ c.end = d.end /\ c.index < d.index

\* sorted(subtitles): a stable sort
RECURSIVE sorted(_)
sorted(cues) ==
    IF cues = <<>> THEN <<>>
    ELSE LET rest == sorted(Tail(cues))
             first == Head(cues)
             n == Cardinality({i \in 1..Len(rest) : cue_before(rest[i], first)})
         IN  SubSeq(rest, 1, n) \o <<first>> \o SubSeq(rest, n + 1, Len(rest))

\* srt drops a cue that starts before 0, starts after its end or has no content
should_skip(c) == c.start < 0 \/ c.start > c.end \/ is_blank(c.content)

keeps_cue(c) == ~should_skip(c)

\* srt.compose: sort, skip, number from 1
srt_compose(cues) ==
    LET kept == SelectSeq(sorted(cues), keeps_cue)
    IN  [i \in 1..Len(kept) |-> [kept[i] EXCEPT !.index = i]]

\* what the output holds while the cues are corrected and composed, lines 171-172
output_while_composing_m(out, c) == [out EXCEPT !.cues = Append(@, c)]
output_while_composing(out, c) == out

\* the anchors and files perform_sync is run on
FromStarts == {1000, 2000}
FromEnds == {1000, 1003, 2000}
ToStarts == {0, 1000, 2000}
ToEnds == {1000, 2000, 3000}
SyncArgs == [to_start : ToStarts, to_end : ToEnds, from_start : FromStarts, from_end : FromEnds]

CorrCueKinds ==
    { [start |-> 1000, end |-> 2000, content |-> <<"a">>],
      [start |-> 1500, end |-> 2000, content |-> <<"b">>],
      [start |-> 2000, end |-> 3000, content |-> <<"a", " ", "b">>],
      [start |-> 1003, end |-> 1500, content |-> <<" ">>] }

CorrCueLists ==
    UNION {{[i \in 1..n |-> [index |-> i, start |-> k[i].start, end |-> k[i].end,
                             content |-> k[i].content]] : k \in [1..n -> CorrCueKinds]}
           : n \in 0..MaxCorrCues}

\* the search is not running
SearchIdle ==
    /\ values = [SR |-> 0, words |-> 1, SC |-> 70, MSUB |-> FALSE]
    /\ duration = 0
    /\ start_frac = <<1, 4>>
    /\ subList = <<>>
    /\ subLowerAlpha = <<>>
    /\ time = 0
    /\ text = <<>>
    /\ LoopLocalsInit

\* perform_sync is entered: nothing is computed, the output is not yet opened.
\* malformed_at = k > 0: the file's k-th block is malformed (k = number of
\* cues + 1: text that is no cue follows the last cue)
CorrInit ==
    /\ SearchIdle
    /\ AutoIdle
    /\ args \in SyncArgs
    /\ \E cues \in CorrCueLists, d \in BOOLEAN, k \in 0..(MaxCorrCues + 1) :
        /\ k <= Len(cues) + 1
        /\ input = [cues |-> cues, decodable |-> d, malformed_at |-> k]
    /\ coefficients = not_called
    /\ corrected = <<>>
    /\ output = [exists |-> FALSE, cues |-> <<>>]
    /\ sync_result = not_returned
    /\ pc = "calc_correction"

\* lines 166-168, and line 183 when the division raises
CalcCorrection ==
    /\ pc = "calc_correction"
    /\ \E c \in {calc_correction(args.to_start, args.to_end, args.from_start, args.from_end)} :
        /\ coefficients' = c
        /\ IF c.raised # ""
           THEN /\ sync_result' = [success |-> FALSE,
                                   message |-> <<"Try a different encoding", c.raised>>]
                /\ pc' = "sync_done"
           ELSE /\ sync_result' = sync_result
                /\ pc' = "set_basic_args"
    /\ UNCHANGED <<args, input, corrected, output>>
    /\ UNCHANGED <<values, duration, start_frac, subList, subLowerAlpha, time, attempts,
                   confidence, text, lineFound, lineMatch, indFrac, indFrac2, result,
                   probes, probeT, outcome>>
    /\ UNCHANGED autoVars

\* line 170: srt_tools reads and decodes the input, then opens the output for
\* writing, which creates it empty; line 181 when the input does not decode
SetBasicArgs ==
    /\ pc = "set_basic_args"
    /\ IF input.decodable
       THEN /\ output' = [exists |-> TRUE, cues |-> <<>>]
            /\ sync_result' = sync_result
            /\ pc' = "compose"
       ELSE /\ output' = output
            /\ sync_result' = [success |-> FALSE, message |-> <<"Try a different encoding">>]
            /\ pc' = "sync_done"
    /\ UNCHANGED <<args, input, coefficients, corrected>>
    /\ UNCHANGED <<values, duration, start_frac, subList, subLowerAlpha, time, attempts,
                   confidence, text, lineFound, lineMatch, indFrac, indFrac2, result,
                   probes, probeT, outcome>>
    /\ UNCHANGED autoVars

\* lines 171-172 and 130-133: compose draws the next cue from
\* linear_correct_subs, which draws it from the parser; line 183 when the
\* parser raises on a malformed block
CorrectNextCue ==
    /\ pc = "compose"
    /\ Len(corrected) < Len(input.cues) \/ input.malformed_at = Len(input.cues) + 1
    /\ IF input.malformed_at = Len(corrected) + 1
       THEN /\ sync_result' = [success |-> FALSE,
                               message |-> <<"Try a different encoding", "SRTParseError">>]
            /\ pc' = "sync_done"
            /\ UNCHANGED <<corrected, output>>
       ELSE /\ \E c \in {correct_subtitle(input.cues[Len(corrected) + 1],
                                          coefficients.angular, coefficients.linear)} :
                /\ corrected' = Append(corrected, c)
                /\ output' = output_while_composing(output, c)
            /\ UNCHANGED <<sync_result, pc>>
    /\ UNCHANGED <<args, input, coefficients>>
    /\ UNCHANGED <<values, duration, start_frac, subList, subLowerAlpha, time, attempts,
                   confidence, text, lineFound, lineMatch, indFrac, indFrac2, result,
                   probes, probeT, outcome>>
    /\ UNCHANGED autoVars

\* lines 172-180: every cue is drawn, the text is composed and written
WriteOutput ==
    /\ pc = "compose"
    /\ Len(corrected) = Len(input.cues)
    /\ input.malformed_at # Len(input.cues) + 1
    /\ output' = [exists |-> TRUE, cues |-> srt_compose(corrected)]
    /\ sync_result' = [success |-> TRUE, message |-> <<"Success! Synced subtitles saved as: ">>]
    /\ pc' = "sync_done"
    /\ UNCHANGED <<args, input, coefficients, corrected>>
    /\ UNCHANGED <<values, duration, start_frac, subList, subLowerAlpha, time, attempts,
                   confidence, text, lineFound, lineMatch, indFrac, indFrac2, result,
                   probes, probeT, outcome>>
    /\ UNCHANGED autoVars

CorrNext == CalcCorrection \/ SetBasicArgs \/ CorrectNextCue \/ WriteOutput

SpecCorr == CorrInit /\ [][CorrNext]_vars

(***************************************************************************)
(* One auto-sync operation: the -AUTO- handler of the event loop           *)
(* (src/SrtSyncGUIAuto.py) or one file pair of process_batch_sync          *)
(* (src/utils/batch_utils.py), with run_auto_sync_threaded, the two        *)
(* searches and perform_sync.                                              *)
(***************************************************************************)
\* s.endswith(suffix)
ends_with(s, suffix) ==
    /\ Len(s) >= Len(suffix)
    /\ SubSeq(s, Len(s) - Len(suffix) + 1, Len(s)) = suffix

\* s.replace(old, new): every occurrence, scanned left to right
RECURSIVE replace_from(_, _, _, _)
replace_from(s, old, new, i) ==
    IF i > Len(s) THEN <<>>
    ELSE IF occurs_at(s, old, i) THEN new \o replace_from(s, old, new, i + Len(old))
    ELSE <<s[i]>> \o replace_from(s, old, new, i + 1)

str_replace(s, old, new) == replace_from(s, old, new, 1)

dot_srt == <<".", "s", "r", "t">>

\* update_file_list(folder, ".srt", is_srt): the names of a folder that are
\* listed for the subtitle box, or for the video box
update_file_list(file_list, is_srt) ==
    IF is_srt THEN {f \in file_list : ends_with(lower(f), dot_srt)}
    ELSE {f \in file_list : ~ends_with(lower(f), dot_srt)}

os_path_join(folder, f) == folder \o <<"/">> \o f

\* the folders that can be chosen and the files they hold
Folders == { <<"b">>, <<"b", ".", "s", "r", "t">> }
FolderFiles == { <<"a", ".", "s", "r", "t">>, <<"a", ".", "S", "R", "T">>, <<"a", ".", "b">> }

\* lines 660-675 of the event loop: what filename and filenamev can hold
SubtitlePaths == {os_path_join(d, f) : d \in Folders, f \in update_file_list(FolderFiles, TRUE)}
VideoPaths == {os_path_join(<<"b">>, f) : f \in update_file_list(FolderFiles, FALSE)}

\* srt.timedelta_to_srt_timestamp: the milliseconds are cut, not rounded;
\* "%02d:%02d:%02d,%03d" of the hours, with
\* the days added, and of the seconds and microseconds of the normalized
\* timedelta; the hours of a negative timedelta are negative
timedelta_to_srt_timestamp(us) ==
    LET ms == us \div 1000
    IN  IF ms >= 0 THEN srt_timestamp(ms)
        ELSE <<"-">> \o decimal(-(ms \div 3600000)) \o SubSeq(srt_timestamp(ms), 3, 12)

digit_value(c) == CHOOSE n \in 0..9 : digit(n) = c

\* srt.srt_timestamp_to_timedelta, then timedelta_to_milliseconds, of a
\* timestamp HH:MM:SS,mmm
srt_timestamp_to_milliseconds(t) ==
    (10 * digit_value(t[1]) + digit_value(t[2])) * 3600000
        + (10 * digit_value(t[4]) + digit_value(t[5])) * 60000
        + (10 * digit_value(t[7]) + digit_value(t[8])) * 1000
        + 100 * digit_value(t[10]) + 10 * digit_value(t[11]) + digit_value(t[12])

\* SrtSyncGUIAuto.py, validate_files(filename, filenamev): a video that is
\* None is not looked at
validate_files_auto(fn, fnv) ==
    IF fn = NoFile \/ Len(fn) = 0
    THEN [valid |-> FALSE, error_msg |-> "Error: Subtitle file not selected."]
    ELSE IF fnv # NoFile /\ Len(fnv) = 0
    THEN [valid |-> FALSE, error_msg |-> "Error: Video file not selected."]
    ELSE [valid |-> TRUE, error_msg |-> ""]

\* utils/file_utils.py, validate_files(filename, filenamev, require_video)
validate_files(fn, fnv, require_video) ==
    IF fn = NoFile \/ Len(fn) = 0
    THEN [valid |-> FALSE, error_msg |-> "Error: Subtitle file not selected."]
    ELSE IF require_video /\ (fnv = NoFile \/ Len(fnv) = 0)
    THEN [valid |-> FALSE, error_msg |-> "Error: Video file not selected."]
    ELSE [valid |-> TRUE, error_msg |-> ""]

\* lines 250-251: the start fraction of the first and of the second search
search_start_frac(n) == IF n = 1 THEN <<1, 4>> ELSE <<3, 4>>

\* the test of line 253 on the two searches' results
both_found_m(r1, r2) == r1 # <<>>
both_found_either(r1, r2) == r1 # <<>> \/ r2 # <<>>
both_found(r1, r2) == r1 # <<>> /\ r2 # <<>>

\* [video_time, subTime] as auto_sub_sync returns them, lines 219-225
anchor_strings(r) ==
    IF r = <<>> THEN <<<<>>, <<>>>>
    ELSE <<timedelta_to_srt_timestamp(r[1] * 1000), timedelta_to_srt_timestamp(r[2])>>

\* lines 253-259
thread_results(r1, r2) ==
    IF both_found(r1, r2)
    THEN [success |-> TRUE, error |-> "",
          btime1 |-> anchor_strings(r1)[1], btime2 |-> anchor_strings(r1)[2],
          etime1 |-> anchor_strings(r2)[1], etime2 |-> anchor_strings(r2)[2]]
    ELSE [no_results EXCEPT !.error = "Auto sync failed to find matching subtitles"]

\* setup_sync_args: the command line it builds
setup_sync_args(fn, vals, output_suffix) ==
    [input |-> fn, f1 |-> vals.F1, f2 |-> vals.F2, t1 |-> vals.T1, t2 |-> vals.T2,
     output |-> str_replace(fn, dot_srt, output_suffix)]

\* parse_args: the four timestamps, in milliseconds
parse_args(a) ==
    [to_start |-> srt_timestamp_to_milliseconds(a.t1),
     to_end |-> srt_timestamp_to_milliseconds(a.t2),
     from_start |-> srt_timestamp_to_milliseconds(a.f1),
     from_end |-> srt_timestamp_to_milliseconds(a.f2)]

\* argparse takes a value that starts with '-' and is no number for an
\* option: parse_args ends in parser.error, which raises SystemExit
looks_like_option(v) == Len(v) > 0 /\ v[1] = "-"
argparse_exits(a) == \E v \in {a.f1, a.f2, a.t1, a.t2} : looks_like_option(v)

\* batch_utils.py lines 136-141
batch_sync_values(r) ==
    [F1 |-> r.btime2, T1 |-> r.btime1, F2 |-> r.etime2, T2 |-> r.etime1]

autosync_suffix == <<"_", "a", "u", "t", "o", "s", "y", "n", "c", ".", "s", "r", "t">>
batch_suffix == <<"_", "b", "a", "t", "c", "h">> \o autosync_suffix

\* the timestamp fields as the window holds them when the event is read
FieldValues ==
    { [F1 |-> srt_timestamp(0), T1 |-> srt_timestamp(0),
       F2 |-> srt_timestamp(0), T2 |-> srt_timestamp(0)],
      [F1 |-> srt_timestamp(1000), T1 |-> srt_timestamp(1000),
       F2 |-> srt_timestamp(2000), T2 |-> srt_timestamp(3000)] }

AutoDuration == 10000

\* the event -AUTO- was read, or process_batch_sync reached a file pair
AutoInit ==
    /\ caller \in {"AUTO", "batch"}
    /\ filename \in (IF caller = "AUTO" THEN {NoFile} ELSE {}) \cup SubtitlePaths
    /\ filenamev \in (IF caller = "AUTO" THEN {NoFile} ELSE {}) \cup VideoPaths
    /\ \E sr \in WindowDurations, f \in FieldValues :
        /\ caller = "batch" => f.F2 = srt_timestamp(0)
        /\ values = [SR |-> sr, words |-> 1, SC |-> 70, MSUB |-> FALSE,
                     F1 |-> f.F1, T1 |-> f.T1, F2 |-> f.F2, T2 |-> f.T2]
        /\ window = [F1 |-> f.F1, T1 |-> f.T1, F2 |-> f.F2, T2 |-> f.T2,
                     TOUT2 |-> <<>>, TOUT3 |-> <<>>, FILE_LIST |-> {}, FILE_LIST2 |-> {}]
    /\ \E d \in BOOLEAN :
        input = [cues |-> CHOOSE f \in SearchFiles : Len(f) = 3, decodable |-> d,
                 malformed_at |-> 0]
    \* a window of no length, which uses up the attempts, is drawn for one
    \* selection only
    /\ values.SR = 0 =>
        /\ caller = "AUTO"
        /\ filename = os_path_join(<<"b">>, <<"a", ".", "s", "r", "t">>)
        /\ filenamev # NoFile
        /\ values.F2 = srt_timestamp(0)
        /\ input.decodable
    /\ duration = AutoDuration
    /\ start_frac = <<1, 4>>
    /\ subList = <<>>
    /\ subLowerAlpha = <<>>
    /\ time = 0
    /\ text = <<>>
    /\ LoopLocalsInit
    /\ args = [to_start |-> 0, to_end |-> 0, from_start |-> 0, from_end |-> 0]
    /\ coefficients = not_called
    /\ corrected = <<>>
    /\ output = [exists |-> FALSE, cues |-> <<>>]
    /\ sync_result = not_returned
    /\ apc = "event"
    /\ search_no = 0
    /\ result1 = <<>>
    /\ results = no_results
    /\ argv = <<>>
    /\ savedtimes = <<>>
    /\ batch_results = IF caller = "batch"
                       THEN initial_results(<<<<filename, filenamev>>>>)
                       ELSE no_batch_results
    /\ written = [n \in 1..2 |-> {}]
    /\ closed = FALSE
    /\ late_probes = 0
    /\ batch = IF caller = "batch"
               THEN [file_pairs |-> <<<<filename, filenamev>>>>, i |-> 1,
                     started |-> <<0>>, synced |-> <<0>>]
               ELSE no_batch
    /\ pairing = no_pairing
    /\ pc = "idle"

\* SrtSyncGUIAuto.py lines 689-702, batch_utils.py lines 100-114: the files
\* are validated and run_auto_sync_threaded starts the worker thread
StartOperation ==
    /\ apc = "event"
    /\ \E v \in {IF caller = "AUTO" THEN validate_files_auto(filename, filenamev)
                 ELSE validate_files(filename, filenamev, TRUE)} :
        IF ~v.valid
        THEN /\ apc' = "handler_done"
             /\ batch' = batch
             /\ IF caller = "batch"
                THEN /\ batch_results' = record_failure(batch_results, filename, filenamev,
                                                        <<v.error_msg>>)
                     /\ window' = window
                ELSE /\ batch_results' = batch_results
                     /\ window' = IF v.error_msg = "Error: Video file not selected."
                                  THEN [window EXCEPT !.TOUT3 = <<v.error_msg>>]
                                  ELSE [window EXCEPT !.TOUT2 = <<v.error_msg>>]
             /\ UNCHANGED <<pc, search_no>>
        ELSE /\ apc' = "polling"
             /\ pc' = "entry"
             /\ search_no' = 1
             /\ batch_results' = batch_results
             /\ batch' = IF caller = "batch"
                         THEN [batch EXCEPT !.started[batch.i] = @ + 1]
                         ELSE batch
             /\ window' = IF caller = "AUTO"
                          THEN [window EXCEPT !.TOUT2 = <<"Working on auto filling times...">>]
                          ELSE window
    /\ UNCHANGED <<values, duration, start_frac, subList, subLowerAlpha, time, attempts,
                   confidence, text, lineFound, lineMatch, indFrac, indFrac2, result,
                   probes, probeT, outcome>>
    /\ UNCHANGED corrVars
    /\ UNCHANGED <<caller, filename, filenamev, result1, results, argv, savedtimes,
                   closed, written, late_probes, pairing>>

\* audio_utils.py lines 121-160: the clip is opened, the subtitle file is
\* read and parsed, the locals are set
AutoSubSyncEntry ==
    /\ apc = "polling"
    /\ pc = "entry"
    /\ start_frac' = search_start_frac(search_no)
    /\ attempts' = 0
    /\ confidence' = 0
    /\ lineFound' = FALSE
    /\ lineMatch' = None
    /\ indFrac' = <<0, 1>>
    /\ indFrac2' = <<0, 1>>
    /\ result' = <<>>
    /\ probes' = 0
    /\ probeT' = 0
    /\ outcome' = "not called"
    /\ text' = <<>>
    /\ IF filenamev = NoFile
       THEN \* line 124: VideoFileClip(None) raises
            /\ pc' = "raised"
            /\ UNCHANGED <<time, subList, subLowerAlpha, window>>
       ELSE IF ~input.decodable
       THEN \* lines 147-150
            /\ pc' = "done"
            /\ window' = [window EXCEPT !.TOUT2 = <<"Try a different encoding\n">>]
            /\ UNCHANGED <<time, subList, subLowerAlpha>>
       ELSE /\ pc' = "loop"
            /\ time' \in initial_times(duration, search_start_frac(search_no))
            /\ subList' = input.cues
            /\ subLowerAlpha' = corpus_of(file_text(input.cues))
            /\ window' = window
    /\ UNCHANGED <<values, duration>>
    /\ UNCHANGED corrVars
    /\ UNCHANGED <<apc, caller, filename, filenamev, search_no, result1, results, argv,
                   savedtimes, batch_results, closed, written, late_probes, batch, pairing>>

\* line 250-251: the first search returned, the second is called
NextSearch ==
    /\ apc = "polling"
    /\ pc = "done"
    /\ search_no = 1
    /\ result1' = result
    /\ search_no' = 2
    /\ pc' = "entry"
    /\ UNCHANGED <<values, duration, start_frac, subList, subLowerAlpha, time, attempts,
                   confidence, text, lineFound, lineMatch, indFrac, indFrac2, result,
                   probes, probeT, outcome>>
    /\ UNCHANGED corrVars
    /\ UNCHANGED <<apc, caller, filename, filenamev, results, window, argv, savedtimes,
                   batch_results, closed, written, late_probes, batch, pairing>>

\* lines 253-262: the second search returned, or a search raised; the
\* worker thread sets results and ends
ThreadEnd ==
    /\ apc = "polling"
    /\ (pc = "done" /\ search_no = 2) \/ pc = "raised"
    /\ results' = IF pc = "raised"
                  THEN [no_results EXCEPT !.error = "exception"]
                  ELSE thread_results(result1, result)
    /\ pc' = "thread_end"
    /\ UNCHANGED <<values, duration, start_frac, subList, subLowerAlpha, time, attempts,
                   confidence, text, lineFound, lineMatch, indFrac, indFrac2, result,
                   probes, probeT, outcome>>
    /\ UNCHANGED corrVars
    /\ UNCHANGED <<apc, caller, filename, filenamev, search_no, result1, window, argv,
                   savedtimes, batch_results, closed, written, late_probes, batch, pairing>>

\* line 268: auto_sync_thread.is_alive()
thread_never_alive == FALSE
is_alive == pc # "thread_end"

\* lines 268-269: while the thread is alive the caller reads the window with
\* a timeout and drops what it reads, the window-closed event included
Poll ==
    /\ apc = "polling"
    /\ is_alive
    /\ \E event \in {"__TIMEOUT__", "WIN_CLOSED"} :
        closed' = (closed \/ event = "WIN_CLOSED")
    /\ UNCHANGED searchVars
    /\ UNCHANGED corrVars
    /\ UNCHANGED <<apc, caller, filename, filenamev, search_no, result1, results, window,
                   argv, savedtimes, batch_results, written, late_probes, batch, pairing>>

\* SrtSyncGUIAuto.py lines 702-722, batch_utils.py lines 114-144: the thread
\* ended; on failure the handler reports it, on success it saves the times,
\* builds the arguments and calls perform_sync
AfterThread ==
    /\ apc = "polling"
    /\ ~is_alive
    /\ IF ~results.success
       THEN /\ apc' = "handler_done"
            /\ pc' = pc
            /\ IF caller = "AUTO"
               THEN /\ window' = [window EXCEPT !.TOUT2 = <<"Auto sync failed: ", results.error>>]
                    /\ batch_results' = batch_results
               ELSE /\ window' = window
                    /\ batch_results' = record_failure(batch_results, filename, filenamev,
                                                       <<results.error>>)
            /\ UNCHANGED <<argv, args, savedtimes, batch>>
       ELSE /\ batch_results' = batch_results
            /\ IF caller = "AUTO"
               THEN /\ window' = [window EXCEPT !.T1 = results.btime1, !.F1 = results.btime2,
                                                !.T2 = results.etime1, !.F2 = results.etime2,
                                                !.TOUT2 = <<"Successfully auto filled times!">>]
                    /\ argv' = setup_sync_args(filename, values, autosync_suffix)
               ELSE /\ window' = window
                    /\ argv' = setup_sync_args(filename, batch_sync_values(results),
                                               batch_suffix)
            /\ IF argparse_exits(argv')
               THEN \* parse_args raised SystemExit, which no handler catches
                    /\ apc' = "exited"
                    /\ pc' = pc
                    /\ savedtimes' = <<results.btime2, results.btime1,
                                       results.etime2, results.etime1>>
                    /\ UNCHANGED <<args, batch>>
               ELSE /\ apc' = "perform_sync"
                    /\ pc' = "calc_correction"
                    /\ savedtimes' = IF caller = "AUTO"
                                     THEN <<values.F1, values.T1, values.F2, values.T2>>
                                     ELSE <<results.btime2, results.btime1,
                                            results.etime2, results.etime1>>
                    /\ args' = parse_args(argv')
                    /\ batch' = IF caller = "batch"
                                THEN [batch EXCEPT !.synced[batch.i] = @ + 1]
                                ELSE batch
    /\ UNCHANGED <<values, duration, start_frac, subList, subLowerAlpha, time, attempts,
                   confidence, text, lineFound, lineMatch, indFrac, indFrac2, result,
                   probes, probeT, outcome>>
    /\ UNCHANGED <<input, coefficients, corrected, output, sync_result>>
    /\ UNCHANGED <<caller, filename, filenamev, search_no, result1, results, closed,
                   written, late_probes, pairing>>

\* SrtSyncGUIAuto.py lines 722-723, batch_utils.py lines 144-163: perform_sync
\* returned
PerformSyncReturn ==
    /\ apc = "perform_sync"
    /\ pc = "sync_done"
    /\ apc' = "handler_done"
    /\ IF caller = "AUTO"
       THEN /\ window' = [window EXCEPT !.TOUT2 = sync_result.message]
            /\ batch_results' = batch_results
       ELSE /\ window' = window
            /\ batch_results' =
                   IF sync_result.success
                   THEN record_success(batch_results, filename, filenamev)
                   ELSE record_failure(batch_results, filename, filenamev,
                                       sync_result.message)
    /\ UNCHANGED searchVars
    /\ UNCHANGED corrVars
    /\ UNCHANGED <<caller, filename, filenamev, search_no, result1, results, argv,
                   savedtimes, closed, written, late_probes, batch, pairing>>

AutoNext ==
    \/ StartOperation \/ AutoSubSyncEntry \/ NextSearch \/ ThreadEnd \/ Poll
    \/ AfterThread \/ PerformSyncReturn
    \/ Next
    \/ CorrNext

SpecAuto == AutoInit /\ [][AutoNext]_vars

(***************************************************************************)
(* process_batch_sync (batch_utils.py lines 63-183): the loop over the     *)
(* file pairs.                                                             *)
(***************************************************************************)
a_srt == os_path_join(<<"b">>, <<"a", ".", "s", "r", "t">>)
a_video == os_path_join(<<"b">>, <<"a", ".", "b">>)

\* the lists of pairs that the loop is run on: both files of a pair named,
\* or the subtitle or the video file of the first pair an empty name
BatchPairLists ==
    { <<<<a_srt, a_video>>>>,
      <<<<a_srt, a_video>>, <<a_srt, a_video>>>>,
      <<<<<<>>, a_video>>, <<a_srt, a_video>>>>,
      <<<<a_srt, <<>>>>, <<a_srt, a_video>>>> }

\* a search window of 2.505 s on a video of 10.006 s: the first search
\* starts at 2.5 s, the second at 7.5 s
BatchWindowDuration == 2505
BatchDuration == 10006

\* the state of one iteration before its first statement
PairLocalsInit(decodable) ==
    /\ input = [cues |-> CHOOSE f \in SearchFiles : Len(f) = 3, decodable |-> decodable,
                malformed_at |-> 0]
    /\ start_frac = <<1, 4>>
    /\ subList = <<>>
    /\ subLowerAlpha = <<>>
    /\ time = 0
    /\ text = <<>>
    /\ LoopLocalsInit
    /\ args = [to_start |-> 0, to_end |-> 0, from_start |-> 0, from_end |-> 0]
    /\ coefficients = not_called
    /\ corrected = <<>>
    /\ output = [exists |-> FALSE, cues |-> <<>>]
    /\ sync_result = not_returned
    /\ search_no = 0
    /\ result1 = <<>>
    /\ results = no_results
    /\ argv = <<>>
    /\ written = [n \in 1..2 |-> {}]
    /\ pc = "idle"

\* lines 80-93: process_batch_sync was called with the file pairs
BatchInit ==
    /\ caller = "batch"
    /\ \E l \in BatchPairLists, sr \in {0, BatchWindowDuration} :
        /\ sr = 0 => Len(l) = 1
        /\ batch = [file_pairs |-> l, i |-> 1,
                    started |-> [k \in 1..Len(l) |-> 0],
                    synced |-> [k \in 1..Len(l) |-> 0]]
        /\ values = [SR |-> sr, words |-> 1, SC |-> 70, MSUB |-> FALSE,
                     F1 |-> srt_timestamp(0), T1 |-> srt_timestamp(0),
                     F2 |-> srt_timestamp(0), T2 |-> srt_timestamp(0)]
    /\ filename = batch.file_pairs[1][1]
    /\ filenamev = batch.file_pairs[1][2]
    /\ window = [F1 |-> srt_timestamp(0), T1 |-> srt_timestamp(0),
                 F2 |-> srt_timestamp(0), T2 |-> srt_timestamp(0),
                 TOUT2 |-> <<>>, TOUT3 |-> <<>>, FILE_LIST |-> {}, FILE_LIST2 |-> {}]
    /\ duration = BatchDuration
    /\ \E d \in BOOLEAN :
        /\ values.SR = 0 => d
        /\ PairLocalsInit(d)
    /\ apc = "event"
    /\ savedtimes = <<>>
    /\ batch_results = initial_results(batch.file_pairs)
    /\ closed = FALSE
    /\ late_probes = 0
    /\ pairing = no_pairing

\* line 93: the for statement takes the next pair after an iteration that
\* ended with continue or reached the end of the loop body
BatchContinue ==
    /\ caller = "batch"
    /\ apc = "handler_done"
    /\ batch.i < Len(batch.file_pairs)
    /\ batch' = [batch EXCEPT !.i = @ + 1]
    /\ filename' = batch.file_pairs[batch.i + 1][1]
    /\ filenamev' = batch.file_pairs[batch.i + 1][2]
    /\ apc' = "event"
    /\ \E d \in BOOLEAN :
        input' = [cues |-> CHOOSE f \in SearchFiles : Len(f) = 3, decodable |-> d,
                  malformed_at |-> 0]
    /\ start_frac' = <<1, 4>>
    /\ subList' = <<>>
    /\ subLowerAlpha' = <<>>
    /\ time' = 0
    /\ text' = <<>>
    /\ attempts' = 0
    /\ confidence' = 0
    /\ lineFound' = FALSE
    /\ lineMatch' = None
    /\ indFrac' = <<0, 1>>
    /\ indFrac2' = <<0, 1>>
    /\ result' = <<>>
    /\ probes' = 0
    /\ probeT' = 0
    /\ outcome' = "not called"
    /\ args' = [to_start |-> 0, to_end |-> 0, from_start |-> 0, from_end |-> 0]
    /\ coefficients' = not_called
    /\ corrected' = <<>>
    /\ output' = [exists |-> FALSE, cues |-> <<>>]
    /\ sync_result' = not_returned
    /\ search_no' = 0
    /\ result1' = <<>>
    /\ results' = no_results
    /\ argv' = <<>>
    /\ written' = [n \in 1..2 |-> {}]
    /\ pc' = "idle"
    /\ UNCHANGED <<values, duration, caller, window, savedtimes, batch_results, closed,
                   late_probes, pairing>>

\* lines 176-183: after the last pair the results are returned
BatchReturn ==
    /\ caller = "batch"
    /\ apc = "handler_done"
    /\ batch.i = Len(batch.file_pairs)
    /\ apc' = "returned"
    /\ UNCHANGED <<searchVars, corrVars, caller, filename, filenamev, search_no, result1,
                   results, window, argv, savedtimes, batch_results, closed, written,
                   late_probes, batch, pairing>>

BatchNext ==
    \/ BatchContinue \/ BatchReturn
    \/ AutoNext

SpecBatch == BatchInit /\ [][BatchNext]_vars

(***************************************************************************)
(* Claims about auto_sub_sync.                                             *)
(***************************************************************************)
returned_anchor == pc = "done" /\ result # <<>>

\* the last attempt's probe passed the acceptance test: lineFound is reset
\* at the start of every attempt, so it is TRUE only if that attempt's own
\* transcript was matched
last_probe_accepted == confidence >= values.SC /\ lineFound

\* C1: auto_sub_sync returns an anchor pair if and only if, on the attempt it
\* stops at, the probe's confidence*100 is at least the threshold and
\* find_subtitle_match returned a cue for that probe's text.
C1_AnchorIffAccepted == pc = "done" => ((result # <<>>) <=> last_probe_accepted)

\* C2: when auto_sub_sync accepts, the video timestamp it returns is the
\* start of the probe window whose transcript was accepted.
C2_VideoTimeIsWindowStart == returned_anchor => result[1] = probeT

\* C3: auto_sub_sync issues at most max_attempts probe calls and terminates,
\* whatever the probe returns and whatever the window duration.
C3_TerminatesWithinMaxAttempts == [](probes <= max_attempts) /\ <>(pc = "done")

\* a search that issued max_attempts probes on a window that does not
\* advance the time, and ended
C3_Witness == pc = "done" /\ probes = max_attempts /\ values.SR = 0 /\ time = probeT

\* t is a literal substring of the normalized text of two distinct cues
in_two_cues(t, cues) ==
    \E i, j \in 1..Len(cues) :
        /\ i # j
        /\ str_contains(regex_sub(lower(cues[i].content)), t)
        /\ str_contains(regex_sub(lower(cues[j].content)), t)

\* C5: a candidate that is a literal substring of two distinct cues gets no
\* match, in exact and in fuzzy mode, and the search does not accept on that
\* probe whatever its confidence.  (text is not blank only if the last probe
\* was looked up in the cues.)
C5_TwoCueCandidateRejected ==
    (~is_blank(text) /\ in_two_cues(text, subList)) =>
        /\ lineMatch = None
        /\ ~lineFound
        /\ result = <<>>
        /\ (pc = "loop" => time = probeT + values.SR)

\* a confident probe whose text is in two cues was looked up, in fuzzy mode,
\* and the search went on
C5_Witness ==
    /\ ~is_blank(text) /\ in_two_cues(text, subList)
    /\ confidence >= values.SC
    /\ values.MSUB
    /\ probes = 1 /\ pc = "loop"

\* C14: at every attempt whose window would pass the end of the audio no
\* probe is issued and the loop is left with no cue found, so that no anchor
\* is returned; every probed window lies within the media duration.
C14_NoProbePastEnd ==
    /\ [][(InLoop /\ time + values.SR > duration)
              => (probes' = probes /\ probeT' = probeT /\ pc' = "after_loop" /\ ~lineFound')]_vars
    /\ [](probes > 0 => probeT + values.SR <= duration)
    /\ []((pc = "done" /\ ~lineFound) => result = <<>>)

\* a search that probed, advanced past the last whole window and returned
\* None before its attempts were used up
C14_Witness ==
    /\ pc = "done" /\ result = <<>>
    /\ probes >= 1 /\ attempts = probes + 1 /\ attempts < max_attempts
    /\ time + values.SR > duration /\ time <= duration

recognizer_failed == outcome \in {"UnknownValueError", "RequestError"}

\* C15: a recognition or request failure of the speech-to-text call becomes
\* the probe result (0, absent); nothing is raised, and the search advances
\* to the next window and stays in its loop.
C15_FailureIsEmptyProbe ==
    [][(probes' = probes + 1 /\ recognizer_failed')
          => /\ confidence' = 0 /\ text' = <<>>
             /\ time' = time + values.SR
             /\ pc' = "loop" /\ result' = <<>>]_vars

\* after a request failure the search is about to probe the next window
C15_Witness ==
    /\ outcome = "RequestError" /\ probes >= 2
    /\ InLoop /\ values.SR > 0 /\ ~past_end(time, values.SR, duration)

\* what find_subtitle_match returns for the text of the last probe
last_match ==
    call_find_subtitle_match(text, subList, subLowerAlpha, values.MSUB, values.words)

\* C16: a returned subtitle time is cue.start + (cue.end - cue.start)*indFrac
\* - (cue.end - cue.start)*indFrac2 for the cue and the fractions that
\* find_subtitle_match returns for the last probe's text, to the microsecond
\* (each product of a timedelta and a float is rounded to the microsecond).
C16_SubTimeInterpolated ==
    returned_anchor =>
        /\ last_match.line # None
        /\ LET line == subList[last_match.line]
               f1 == last_match.indFrac
               f2 == last_match.indFrac2
               d == f1[2] * f2[2]
               span == (line.end - line.start) * 1000
               exact == line.start * 1000 * d + span * f1[1] * f2[2] - span * f2[1] * f1[2]
           IN  /\ result[2] * d - exact <= d
               /\ exact - result[2] * d <= d

\* an anchor accepted on a later attempt, in fuzzy mode, with the common
\* words found inside the transcript
C16_Witness ==
    /\ returned_anchor /\ last_probe_accepted
    /\ probes >= 2
    /\ values.MSUB
    /\ indFrac2[1] # 0

\* the attempt of this step probed a window
probed_in_step == probes' = probes + 1

\* the window probed last is the k-th of the windows that follow each other
\* from the initial time on
kth_window_start ==
    \E t0 \in initial_times(duration, start_frac) :
        probeT = t0 + (probes - 1) * values.SR

MaxFiles == 2       \* longest file list drawn for get_file_pairs

\* the characters of the file names, in ascending order of their code points
CodePointOrder ==
    <<".", "/", "A", "B", "R", "S", "T", "_", "a", "b", "d", "r", "s", "t">>

code_point_rank(c) == CHOOSE i \in 1..Len(CodePointOrder) : CodePointOrder[i] = c

\* a < b for two str values
str_lt(a, b) ==
    \E i \in 1..(Min({Len(a), Len(b)}) + 1) :
        /\ \A j \in 1..(i - 1) : a[j] = b[j]
        /\ IF i > Len(a) THEN i <= Len(b)
           ELSE /\ i <= Len(b)
                /\ code_point_rank(a[i]) < code_point_rank(b[i])

\* os.path.basename
os_path_basename(p) ==
    LET slashes == {i \in 1..Len(p) : p[i] = "/"}
    IN  IF slashes = {} THEN p ELSE SubSeq(p, Max(slashes) + 1, Len(p))

\* the key without the call of lower()
sort_key_m(x) == os_path_basename(x)

\* lines 23-24: key=lambda x: os.path.basename(x).lower()
sort_key(x) == lower(os_path_basename(x))

\* sorted() places x behind the items of the sorted list l whose key is not
\* greater: the sort is stable
insort(x, l) ==
    LET n == Cardinality({i \in 1..Len(l) : ~str_lt(sort_key(x), sort_key(l[i]))})
    IN  SubSeq(l, 1, n) \o <<x>> \o SubSeq(l, n + 1, Len(l))

RECURSIVE sorted_by_key(_)
\* lines 23-24: sorted(files, key=...)
sorted_by_key(l) ==
    IF l = <<>> THEN <<>>
    ELSE insort(l[Len(l)], sorted_by_key(SubSeq(l, 1, Len(l) - 1)))

\* line 27: list(zip(a, b))
zip(a, b) == [i \in 1..Min({Len(a), Len(b)}) |-> <<a[i], b[i]>>]

\* lines 12-28
get_file_pairs(srt_files, video_files) == zip(sorted_by_key(srt_files), sorted_by_key(video_files))

\* the first item of a list that is not an existing file, 0 when all exist
first_missing(files, existing) ==
    LET missing == {i \in 1..Len(files) : files[i] \notin existing}
    IN  IF missing = {} THEN 0 ELSE Min(missing)

\* lines 31-60
validate_batch_files(srt_files, video_files, existing) ==
    IF Len(srt_files) = 0
    THEN [valid |-> FALSE, message |-> <<"No SRT files selected">>]
    ELSE IF Len(video_files) = 0
    THEN [valid |-> FALSE, message |-> <<"No video files selected">>]
    ELSE IF Len(srt_files) # Len(video_files)
    THEN [valid |-> FALSE,
          message |-> <<"Number of SRT files (">> \o decimal(Len(srt_files))
                      \o <<") must match number of video files (">>
                      \o decimal(Len(video_files)) \o <<")">>]
    ELSE IF first_missing(srt_files, existing) # 0
    THEN [valid |-> FALSE,
          message |-> <<"SRT file not found: ">>
                      \o os_path_basename(srt_files[first_missing(srt_files, existing)])]
    ELSE IF first_missing(video_files, existing) # 0
    THEN [valid |-> FALSE,
          message |-> <<"Video file not found: ">>
                      \o os_path_basename(video_files[first_missing(video_files, existing)])]
    ELSE [valid |-> TRUE, message |-> <<"Files validated successfully">>]

\* the subtitle and video files that the lists are drawn from: the names
\* differ in case, and B.srt and b.srt have the same lowercased name
SrtFileNames ==
    { <<"b", "/", "B", ".", "s", "r", "t">>, <<"d", "/", "a", ".", "s", "r", "t">>, <<"a", "/", "b", ".", "s", "r", "t">> }
VideoFileNames ==
    { <<"d", "/", "a", ".", "b">>, <<"b", "/", "B", ".", "b">>, <<"a", "/", "b", ".", "b">> }

FileLists(S) == UNION {[1..n -> S] : n \in 0..MaxFiles}

\* the two functions are about to be called on two file lists
PairsInit ==
    /\ SearchIdle
    /\ CorrIdle
    /\ CallerIdle
    /\ pc = "idle"
    /\ \E s \in FileLists(SrtFileNames), v \in FileLists(VideoFileNames),
          gone \in {{}, {<<"d", "/", "a", ".", "s", "r", "t">>}, {<<"a", "/", "b", ".", "b">>}} :
        pairing = [srt_files |-> s, video_files |-> v,
                   existing |-> (SrtFileNames \cup VideoFileNames) \ gone,
                   validation |-> not_validated, pairs |-> not_paired]

\* lines 31-60
ValidateBatchFiles ==
    /\ ~pairing.validation.called
    /\ \E r \in {validate_batch_files(pairing.srt_files, pairing.video_files,
                                      pairing.existing)} :
        pairing' = [pairing EXCEPT !.validation = [called |-> TRUE, valid |-> r.valid,
                                                   message |-> r.message]]
    /\ UNCHANGED <<searchVars, corrVars, callerVars, written, late_probes, batch>>

\* lines 12-28
GetFilePairs ==
    /\ ~pairing.pairs.called
    /\ pairing' = [pairing EXCEPT !.pairs =
                       [called |-> TRUE,
                        file_pairs |-> get_file_pairs(pairing.srt_files,
                                                      pairing.video_files)]]
    /\ UNCHANGED <<searchVars, corrVars, callerVars, written, late_probes, batch>>

PairsNext == ValidateBatchFiles \/ GetFilePairs

SpecPairs == PairsInit /\ [][PairsNext]_vars

(***************************************************************************)
(* The event loop (SrtSyncGUIAuto.py lines 647-687): the handlers of the   *)
(* folder fields, of the two list boxes and of the -SYNC- button.  The     *)
(* -AUTO- handler is the operation of SpecAuto.                            *)
(***************************************************************************)
c_suffix == <<"_", "c", ".", "s", "r", "t">>

\* a folder name that os.listdir cannot read
NoSuchFolder == <<"n">>
FolderInputs == {<<"b">>, NoSuchFolder}

\* os.listdir(folder); update_file_list answers [] when it raises
os_listdir(folder) == IF folder = NoSuchFolder THEN {} ELSE FolderFiles

LoopEvents == {"FOLDER", "FOLDER2", "FILE LIST", "FILE LIST2", "SYNC", "Exit"}

\* values as window.read() returns them: the entries that the handler of
\* the event reads
values_read(e, w) ==
    { [SR |-> 0, words |-> 1, SC |-> 70, MSUB |-> FALSE,
       F1 |-> f.F1, T1 |-> f.T1, F2 |-> f.F2, T2 |-> f.T2,
       FOLDER |-> d, FOLDER2 |-> d2, FILE_LIST |-> l, FILE_LIST2 |-> l2] :
         f \in (IF e \in {"FILE LIST2", "SYNC"} THEN FieldValues
                ELSE {CHOOSE g \in FieldValues : g.F1 = g.F2}),
         d \in (IF e \in {"FOLDER", "FILE LIST"} THEN FolderInputs ELSE {<<"b">>}),
         d2 \in (IF e \in {"FOLDER2", "FILE LIST2"} THEN FolderInputs ELSE {<<"b">>}),
         l \in (IF e = "FILE LIST" THEN {<<>>} \cup {<<n>> : n \in w.FILE_LIST}
                ELSE {<<>>}),
         l2 \in (IF e = "FILE LIST2" THEN {<<>>} \cup {<<n>> : n \in w.FILE_LIST2}
                 ELSE {<<>>}) }

\* lines 644-646: the window is shown, no file is selected
LoopInit ==
    /\ values = [SR |-> 0, words |-> 1, SC |-> 70, MSUB |-> FALSE,
                 F1 |-> srt_timestamp(0), T1 |-> srt_timestamp(0),
                 F2 |-> srt_timestamp(0), T2 |-> srt_timestamp(0),
                 FOLDER |-> <<"b">>, FOLDER2 |-> <<"b">>,
                 FILE_LIST |-> <<>>, FILE_LIST2 |-> <<>>]
    /\ duration = 0
    /\ start_frac = <<1, 4>>
    /\ subList = <<>>
    /\ subLowerAlpha = <<>>
    /\ time = 0
    /\ text = <<>>
    /\ LoopLocalsInit
    /\ args = [to_start |-> 0, to_end |-> 0, from_start |-> 0, from_end |-> 0]
    /\ \E d \in BOOLEAN :
        input = [cues |-> CHOOSE f \in SearchFiles : Len(f) = 3, decodable |-> d,
                 malformed_at |-> 0]
    /\ coefficients = not_called
    /\ corrected = <<>>
    /\ output = [exists |-> FALSE, cues |-> <<>>]
    /\ sync_result = not_returned
    /\ apc = "read"
    /\ caller = "none"
    /\ filename = NoFile
    /\ filenamev = NoFile
    /\ search_no = 0
    /\ result1 = <<>>
    /\ results = no_results
    /\ window = [F1 |-> srt_timestamp(0), T1 |-> srt_timestamp(0),
                 F2 |-> srt_timestamp(0), T2 |-> srt_timestamp(0),
                 TOUT2 |-> <<>>, TOUT3 |-> <<>>, FILE_LIST |-> {}, FILE_LIST2 |-> {}]
    /\ argv = <<>>
    /\ savedtimes = <<>>
    /\ batch_results = no_batch_results
    /\ written = [n \in 1..2 |-> {}]
    /\ closed = FALSE
    /\ late_probes = 0
    /\ batch = no_batch
    /\ pairing = no_pairing
    /\ pc = "idle"

\* line 648: window.read() returns the next event and the values
ReadEvent ==
    /\ apc \in {"read", "handler_done"}
    /\ \E e \in LoopEvents :
        /\ caller' = e
        /\ values' \in values_read(e, window)
    /\ apc' = "event"
    /\ coefficients' = not_called
    /\ corrected' = <<>>
    /\ sync_result' = not_returned
    /\ UNCHANGED <<args, input, output>>
    /\ UNCHANGED <<pc, duration, start_frac, subList, subLowerAlpha, time, attempts,
                   confidence, text, lineFound, lineMatch, indFrac, indFrac2, result,
                   probes, probeT, outcome>>
    /\ UNCHANGED <<filename, filenamev, search_no, result1, results, window, argv,
                   savedtimes, batch_results, closed, written, late_probes, batch, pairing>>

\* every variable that the handlers of the loop leave alone
loopFrame == <<searchVars, caller, search_no, result1, results, batch_results, closed,
               written, late_probes, batch, pairing, input, coefficients, corrected,
               output, sync_result>>

\* lines 649-650
HandleExit ==
    /\ apc = "event"
    /\ caller = "Exit"
    /\ apc' = "closed"
    /\ UNCHANGED <<loopFrame, filename, filenamev, window, argv, args, savedtimes>>

\* lines 652-655
HandleFolder ==
    /\ apc = "event"
    /\ caller = "FOLDER"
    /\ window' = [window EXCEPT
                    !.FILE_LIST = update_file_list(os_listdir(values.FOLDER), TRUE)]
    /\ apc' = "handler_done"
    /\ UNCHANGED <<loopFrame, filename, filenamev, argv, args, savedtimes>>

\* lines 656-659
HandleFolder2 ==
    /\ apc = "event"
    /\ caller = "FOLDER2"
    /\ window' = [window EXCEPT
                    !.FILE_LIST2 = update_file_list(os_listdir(values.FOLDER2), FALSE)]
    /\ apc' = "handler_done"
    /\ UNCHANGED <<loopFrame, filename, filenamev, argv, args, savedtimes>>

\* lines 660-667: values["-FILE LIST-"][0] raises on an empty selection and
\* the except clause passes
HandleFileList ==
    /\ apc = "event"
    /\ caller = "FILE LIST"
    /\ filename' = IF values.FILE_LIST = <<>> THEN filename
                   ELSE os_path_join(values.FOLDER, values.FILE_LIST[1])
    /\ apc' = "handler_done"
    /\ UNCHANGED <<loopFrame, filenamev, window, argv, args, savedtimes>>

\* lines 668-687: the statements that follow the comment of line 676 belong
\* to the branch of the second list box
HandleFileList2 ==
    /\ apc = "event"
    /\ caller = "FILE LIST2"
    /\ filenamev' = IF values.FILE_LIST2 = <<>> THEN filenamev
                    ELSE os_path_join(values.FOLDER2, values.FILE_LIST2[1])
    /\ \E v \in {validate_files(filename, NoFile, FALSE)} :
        IF ~v.valid
        THEN /\ window' = [window EXCEPT
                             !.TOUT3 = IF values.FILE_LIST2 = <<>> THEN @ ELSE filenamev',
                             !.TOUT2 = <<v.error_msg>>]
             /\ apc' = "handler_done"
             /\ UNCHANGED <<argv, args, savedtimes, pc>>
        ELSE /\ window' = [window EXCEPT
                             !.TOUT3 = IF values.FILE_LIST2 = <<>> THEN @ ELSE filenamev']
             /\ argv' = setup_sync_args(filename, values, c_suffix)
             /\ IF argparse_exits(argv')
                THEN /\ apc' = "exited"
                     /\ UNCHANGED <<args, savedtimes, pc>>
                ELSE /\ args' = parse_args(argv')
                     /\ savedtimes' = <<values.F1, values.T1, values.F2, values.T2>>
                     /\ apc' = "perform_sync"
                     /\ pc' = "calc_correction"
    /\ UNCHANGED <<values, duration, start_frac, subList, subLowerAlpha, time, attempts,
                   confidence, text, lineFound, lineMatch, indFrac, indFrac2, result,
                   probes, probeT, outcome>>
    /\ UNCHANGED <<caller, search_no, result1, results, batch_results, closed, written,
                   late_probes, batch, pairing, input, coefficients, corrected, output,
                   sync_result, filename>>

\* line 676 is a comment, so no branch tests for -SYNC-: the event falls
\* through the chain to the test of line 689
HandleSync ==
    /\ apc = "event"
    /\ caller = "SYNC"
    /\ apc' = "handler_done"
    /\ UNCHANGED <<loopFrame, filename, filenamev, window, argv, args, savedtimes>>

\* lines 686-687: perform_sync returned
ManualSyncReturn ==
    /\ apc = "perform_sync"
    /\ pc = "sync_done"
    /\ window' = [window EXCEPT !.TOUT2 = sync_result.message]
    /\ apc' = "handler_done"
    /\ pc' = "idle"
    /\ UNCHANGED <<values, duration, start_frac, subList, subLowerAlpha, time, attempts,
                   confidence, text, lineFound, lineMatch, indFrac, indFrac2, result,
                   probes, probeT, outcome>>
    /\ UNCHANGED corrVars
    /\ UNCHANGED <<caller, filename, filenamev, search_no, result1, results, argv,
                   savedtimes, batch_results, closed, written, late_probes, batch, pairing>>

LoopNext ==
    \/ ReadEvent \/ HandleExit \/ HandleFolder \/ HandleFolder2 \/ HandleFileList
    \/ HandleFileList2 \/ HandleSync \/ ManualSyncReturn
    \/ CorrNext

SpecLoop == LoopInit /\ [][LoopNext]_vars

(***************************************************************************)
(* Claims about the batch loop.                                            *)
(***************************************************************************)
pair_valid(k) ==
    validate_files(batch.file_pairs[k][1], batch.file_pairs[k][2], TRUE).valid

\* the loop ended before it reached the end of the list
loop_stopped == apc = "exited"

\* C28: process_batch_sync takes the pairs in list order, starts
\* run_auto_sync_threaded once for each pair that passes validate_files and
\* never for one that fails it, and no failure on a pair stops the loop.
C28_EveryPairProcessed ==
    /\ ~loop_stopped
    /\ \A k \in 1..Len(batch.file_pairs) :
        /\ k > batch.i => batch.started[k] = 0
        /\ batch.started[k] <= 1
        /\ ~pair_valid(k) => batch.started[k] = 0
        /\ (k < batch.i \/ apc = "returned") =>
               batch.started[k] = (IF pair_valid(k) THEN 1 ELSE 0)

\* the times of the two anchors that run_auto_sync_threaded returned, in
\* milliseconds: the subtitle times as the source, the video times as the
\* target
returned_anchor_args ==
    [from_start |-> srt_timestamp_to_milliseconds(results.btime2),
     to_start |-> srt_timestamp_to_milliseconds(results.btime1),
     from_end |-> srt_timestamp_to_milliseconds(results.etime2),
     to_end |-> srt_timestamp_to_milliseconds(results.etime1)]

\* the iteration of the pair in work is past the call of setup_sync_args
past_setup_sync_args == apc \notin {"event", "polling"}

\* C29: for a pair whose two searches succeeded, perform_sync is called
\* exactly once, with the subtitle times of the two returned anchors as the
\* source and their video times as the target of the correction.
C29_BatchSyncFromAnchors ==
    \A k \in 1..Len(batch.file_pairs) :
        /\ batch.synced[k] <= 1
        /\ (k = batch.i /\ results.success /\ past_setup_sync_args) =>
            /\ batch.synced[k] = 1
            /\ args = returned_anchor_args

(***************************************************************************)
(* Claims about get_file_pairs.                                            *)
(***************************************************************************)
lowercased_basename(x) == lower(os_path_basename(x))

\* x can stand at place i when the files are put in ascending order of
\* their lowercased basenames
ith_in_order(x, i, files) ==
    /\ \E j \in 1..Len(files) : files[j] = x
    /\ Cardinality({j \in 1..Len(files) :
           str_lt(lowercased_basename(files[j]), lowercased_basename(x))}) <= i - 1
    /\ Cardinality({j \in 1..Len(files) :
           ~str_lt(lowercased_basename(x), lowercased_basename(files[j]))}) >= i

\* how often x is an item of the list l
count_in(x, l) == Cardinality({j \in 1..Len(l) : l[j] = x})

paired_srt == [i \in 1..Len(pairing.pairs.file_pairs) |-> pairing.pairs.file_pairs[i][1]]
paired_video == [i \in 1..Len(pairing.pairs.file_pairs) |-> pairing.pairs.file_pairs[i][2]]

\* C30: get_file_pairs returns min(|srt_files|, |video_files|) pairs, the
\* i-th of them joins the i-th subtitle file and the i-th video file in
\* ascending order of lowercased basename; no item of either list is in more
\* than one pair, and each is in exactly one when validate_batch_files
\* accepted the lists.
C30_PairsInOrder ==
    pairing.pairs.called =>
        /\ Len(pairing.pairs.file_pairs)
               = Min({Len(pairing.srt_files), Len(pairing.video_files)})
        /\ \A i \in 1..Len(pairing.pairs.file_pairs) :
            /\ ith_in_order(paired_srt[i], i, pairing.srt_files)
            /\ ith_in_order(paired_video[i], i, pairing.video_files)
        /\ \A x \in SrtFileNames :
               count_in(x, paired_srt) <= count_in(x, pairing.srt_files)
        /\ \A x \in VideoFileNames :
               count_in(x, paired_video) <= count_in(x, pairing.video_files)
        /\ (pairing.validation.called /\ pairing.validation.valid) =>
            /\ \A x \in SrtFileNames :
                   count_in(x, paired_srt) = count_in(x, pairing.srt_files)
            /\ \A x \in VideoFileNames :
                   count_in(x, paired_video) = count_in(x, pairing.video_files)

\* accepted lists of the greatest length, given in another order than the
\* sorted one, with B.srt placed behind a.srt
C30_Witness ==
    /\ pairing.pairs.called
    /\ pairing.validation.called /\ pairing.validation.valid
    /\ Len(pairing.pairs.file_pairs) = MaxFiles
    /\ paired_srt # pairing.srt_files
    /\ paired_video # pairing.video_files
    /\ os_path_basename(paired_srt[1]) = <<"a", ".", "s", "r", "t">>
    /\ os_path_basename(paired_srt[2]) = <<"B", ".", "s", "r", "t">>

(***************************************************************************)
(* Claims about one auto-sync operation.                                   *)
(***************************************************************************)
\* the worker thread of run_auto_sync_threaded has ended
thread_ended ==
    /\ search_no >= 1
    /\ pc = "thread_end" \/ apc \in {"perform_sync", "handler_done"}

search_without_anchor == result1 = <<>> \/ result = <<>>

\* C11: if either of the two searches ends without an anchor,
\* run_auto_sync_threaded reports success = False and the caller never calls
\* perform_sync, so that no coefficients are computed and no output is
\* written; perform_sync runs only after a reported success.
C11_AbortWithoutBothAnchors ==
    /\ (thread_ended /\ search_without_anchor) =>
        /\ ~results.success
        /\ apc # "perform_sync"
        /\ coefficients = not_called
        /\ sync_result = not_returned
        /\ ~output.exists
    /\ apc = "perform_sync" => results.success

\* the first search returned an anchor, the second none, and the caller is
\* done with the file pair
C11_Witness ==
    /\ apc = "handler_done" /\ search_no = 2
    /\ result1 # <<>> /\ result = <<>>
    /\ probes >= 1

\* the four times of the anchors that the searches returned, in milliseconds
anchor_args ==
    [to_start |-> srt_timestamp_to_milliseconds(results.btime1),
     to_end |-> srt_timestamp_to_milliseconds(results.etime1),
     from_start |-> srt_timestamp_to_milliseconds(results.btime2),
     from_end |-> srt_timestamp_to_milliseconds(results.etime2)]

\* C12: in the -AUTO- handler, after both searches succeeded, the arguments
\* of perform_sync are the two anchor pairs that the searches returned.
C12_SyncArgsAreAnchors ==
    (caller = "AUTO" /\ apc = "perform_sync") => args = anchor_args

\* C13: the output path that setup_sync_args computes differs from the input
\* path, for every subtitle path that can be selected.
C13_OutputIsNotInput ==
    apc = "perform_sync" => argv.output # argv.input

no_match_error == "Auto sync failed to find matching subtitles"
encoding_hint == "Try a different encoding\n"

\* the operation ended on a subtitle file that could not be decoded
decode_failed ==
    /\ apc = "handler_done" /\ search_no >= 1
    /\ filenamev # NoFile /\ ~input.decodable

\* C17: when the subtitle file cannot be decoded, the error of
\* run_auto_sync_threaded is not the one of a search without a match, and the
\* status that the -AUTO- handler leaves is the different-encoding hint.
C17_DecodeFailureIsReported ==
    decode_failed =>
        /\ results.error # no_match_error
        /\ caller = "AUTO" => window.TOUT2 = <<encoding_hint>>

not_selected_errors ==
    {"Error: Subtitle file not selected.", "Error: Video file not selected."}

\* the messages that the operation left for the user
shown_messages ==
    {window.TOUT2[i] : i \in 1..Len(window.TOUT2)}
        \cup {window.TOUT3[i] : i \in 1..Len(window.TOUT3)}
        \cup UNION {{batch_results.errors[i][k] : k \in 1..Len(batch_results.errors[i])} :
                          i \in 1..Len(batch_results.errors)}

\* perform_sync failed on anchors whose two subtitle times are equal
degenerate_anchor_failure ==
    /\ apc = "handler_done" /\ results.success
    /\ args.from_start = args.from_end

\* C18: once the -AUTO- event is handled with no subtitle file or no video
\* file selected, a 'not selected' message is shown and no search was
\* started; a failure on degenerate anchors is reported with neither the
\* 'not selected' nor the encoding message.
C18_FailuresAreDistinguished ==
    /\ (caller = "AUTO" /\ apc # "event" /\ (filename = NoFile \/ filenamev = NoFile)) =>
        /\ search_no = 0
        /\ apc = "handler_done"
        /\ shown_messages \cap not_selected_errors # {}
    /\ degenerate_anchor_failure =>
        /\ shown_messages \cap not_selected_errors = {}
        /\ "Try a different encoding" \notin shown_messages

\* C19: the two searches of one operation write their audio segments to
\* distinct locations.
C19_DistinctSegmentLocations == written[1] \cap written[2] = {}

\* C20: after the window-closed event arrived while the caller was polling,
\* the worker issues at most the probe of the attempt in flight.
C20_NoProbeAfterAbandon == late_probes <= 1

(***************************************************************************)
(* Claims about find_subtitle_match.                                       *)
(***************************************************************************)
\* the number of positions of hay at which needle occurs
occurrences(hay, needle) ==
    Cardinality({i \in 1..(Len(hay) + 1) : occurs_at(hay, needle, i)})

\* C4: find_subtitle_match never returns a cue for a candidate whose
\* space-stripped form occurs more than once in the corpus, occurrences
\* counted at every position (overlapping ones included).
C4_NoMatchWhenRepeated ==
    (pc = "match_return" /\ occurrences(subLowerAlpha, replace_spaces(text)) > 1)
        => lineMatch = None

exact_match_returned == pc = "match_return" /\ ~values.MSUB /\ lineMatch # None

hello_scenario ==
    /\ pc = "match_return" /\ ~values.MSUB /\ values.words = 1
    /\ text = hello /\ subList = <<cue(1, hello_world)>>

in_unit_interval(f) == f[2] > 0 /\ 0 <= f[1] /\ f[1] <= f[2]

\* C23: every result of find_subtitle_match, in exact and in fuzzy mode, has
\* indFrac in [0, 1] and indFrac2 in [0, 1].
C23_FractionsInUnitInterval ==
    pc = "match_return" => in_unit_interval(indFrac) /\ in_unit_interval(indFrac2)

\* a fuzzy match whose common substring starts inside the cue text and
\* inside the candidate
C23_Witness ==
    /\ pc = "match_return" /\ values.MSUB /\ lineMatch # None
    /\ indFrac[1] > 0 /\ indFrac2[1] > 0

\* the words of s: the maximal runs of characters that are no spaces, by
\* their first positions
word_starts(s) == {i \in 1..Len(s) : s[i] # " " /\ (i = 1 \/ s[i - 1] = " ")}

\* the common substring that fuzzy mode tested for the returned cue
returned_matchStr ==
    LET subText == regex_sub(lower(subList[lineMatch].content))
    IN  SubSeq(text, indFrac2[1] + 1,
               indFrac2[1] + find_longest_match(text, subText).size)

\* C25: find_subtitle_match returns no match for a candidate with fewer
\* words than min_words, in exact and in fuzzy mode; in fuzzy mode the
\* accepted common substring has at least min_words words.
C25_MinWords ==
    pc = "match_return" =>
        /\ Cardinality(word_starts(text)) < values.words => lineMatch = None
        /\ (values.MSUB /\ lineMatch # None) =>
               Cardinality(word_starts(returned_matchStr)) >= values.words

\* a candidate of one word that is in a cue, called with min_words = 2 in
\* exact mode, returned no match
C25_Witness ==
    /\ pc = "match_return" /\ ~values.MSUB /\ values.words = 2
    /\ Cardinality(word_starts(text)) = 1
    /\ \E i \in 1..Len(subList) : str_contains(regex_sub(lower(subList[i].content)), text)
    /\ str_count(subLowerAlpha, replace_spaces(text)) = 1
    /\ lineMatch = None

\* cue i is the first cue whose normalized text contains t
first_cue_containing(t, cues, i) ==
    /\ str_contains(regex_sub(lower(cues[i].content)), t)
    /\ \A j \in 1..(i - 1) : ~str_contains(regex_sub(lower(cues[j].content)), t)

\* C26: in exact mode find_subtitle_match returns a cue only if the
\* space-stripped candidate occurs exactly once in the corpus; the cue is the
\* first in file order whose normalized text contains the candidate; if no
\* cue contains it, no cue is returned.
C26_ExactModeUniqueFirstCue ==
    (pc = "match_return" /\ ~values.MSUB) =>
        /\ lineMatch # None =>
            /\ occurrences(subLowerAlpha, replace_spaces(text)) = 1
            /\ first_cue_containing(text, subList, lineMatch)
        /\ (\A i \in 1..Len(subList) :
                ~str_contains(regex_sub(lower(subList[i].content)), text))
               => lineMatch = None

\* C27: in fuzzy mode the common substring of the returned cue has at least
\* min_words words, is not empty, occurs space-stripped at most once in the
\* corpus, and the fractions are its index in the cue text / the length of
\* the cue text and its index in the candidate / the length of the
\* candidate; every earlier cue fails one of the two tests.
C27_FuzzyModeFirstAcceptableCue ==
    (pc = "match_return" /\ values.MSUB /\ lineMatch # None) =>
        LET subText == regex_sub(lower(subList[lineMatch].content))
        IN  /\ Len(returned_matchStr) > 0
            /\ Cardinality(word_starts(returned_matchStr)) >= values.words
            /\ occurrences(subLowerAlpha, replace_spaces(returned_matchStr)) <= 1
            /\ indFrac[2] = Len(subText) /\ indFrac2[2] = Len(text)
            /\ occurs_at(subText, returned_matchStr, indFrac[1] + 1)
            /\ \A j \in 1..indFrac[1] : ~occurs_at(subText, returned_matchStr, j)
            /\ \A j \in 1..(lineMatch - 1) :
                   LET other == regex_sub(lower(subList[j].content))
                       m == find_longest_match(text, other)
                       str == SubSeq(text, m.a + 1, m.a + m.size)
                   IN  \/ Len(other) = 0
                       \/ Cardinality(word_starts(str)) < values.words
                       \/ str_count(subLowerAlpha, replace_spaces(str)) > 1

\* the cue texts of a file, one after the other
RECURSIVE cue_texts(_)
cue_texts(cues) ==
    IF cues = <<>> THEN <<>> ELSE Head(cues).content \o <<"\n">> \o cue_texts(Tail(cues))

\* C21: the corpus used for occurrence counting is the concatenation of the
\* cue texts, lowercased, restricted to letters and digits, spaces removed,
\* so that a candidate's occurrence count is its count in the cue texts.
C21_CorpusIsCueTexts ==
    pc = "match_return" =>
        /\ subLowerAlpha = corpus_of(cue_texts(subList))
        /\ str_count(subLowerAlpha, replace_spaces(text))
               = str_count(corpus_of(cue_texts(subList)), replace_spaces(text))

(***************************************************************************)
(* Claims about the linear correction.                                     *)
(***************************************************************************)
\* the cue times that were corrected so far, with the times they came from
corrected_times ==
    UNION {{<<input.cues[i].start, corrected[i].start>>,
            <<input.cues[i].end, corrected[i].end>>} : i \in 1..Len(corrected)}

identity_anchors ==
    /\ args.to_start = args.from_start
    /\ args.to_end = args.from_end
    /\ args.from_start # args.from_end

\* C7: with identity anchors linear_correct_subs leaves the start and the end
\* of every cue unchanged.
C7_IdentityLeavesCuesUnchanged ==
    identity_anchors =>
        \A i \in 1..Len(corrected) :
            /\ corrected[i].start = input.cues[i].start
            /\ corrected[i].end = input.cues[i].end

C7_Witness ==
    /\ identity_anchors
    /\ Len(corrected) = 2
    /\ corrected[1].start # corrected[2].start
    /\ pc = "sync_done" /\ sync_result.success

scenario_args ==
    args = [to_start |-> 1000, to_end |-> 3000, from_start |-> 1000, from_end |-> 2000]

C9_EqualSourcesRaise ==
    (pc # "calc_correction" /\ args.from_start = args.from_end) =>
        /\ coefficients = [raised |-> "ZeroDivisionError"]
        /\ pc = "sync_done"
        /\ ~sync_result.success

C9_Witness ==
    /\ pc = "sync_done"
    /\ args.from_start = args.from_end
    /\ args.to_start = args.to_end

\* C10: the output is written only after the coefficients were computed and
\* every cue was corrected and composed; when perform_sync returns failure
\* no corrected cue is in the output.
C10_NoPartialOutput ==
    /\ Len(output.cues) > 0 =>
        /\ pc = "sync_done" /\ sync_result.success
        /\ coefficients.raised = ""
        /\ Len(corrected) = Len(input.cues)
        /\ output.cues = srt_compose(corrected)
    /\ (pc = "sync_done" /\ ~sync_result.success) => Len(output.cues) = 0

\* a file whose second block is malformed: the first cue was corrected, the
\* output was opened, and perform_sync returned failure
C10_Witness ==
    /\ pc = "sync_done" /\ ~sync_result.success
    /\ Len(corrected) = 1
    /\ ~should_skip(corrected[1])
    /\ output.exists


(***************************************************************************)
(* Claims about the cues, the event loop and the anchors.                  *)
(***************************************************************************)
\* C31: linear_correct_subs yields the cues of the file one by one, in the
\* order of the file, each with its index and its text and with
\* round(t * angular + linear) for its start and its end; the cue list of
\* the search is the parsed file from its entry on.
C31_OnlyTimesChange ==
    /\ subList = <<>> \/ subList = input.cues
    /\ Len(corrected) <= Len(input.cues)
    /\ \A i \in 1..Len(corrected) :
        /\ corrected[i].index = input.cues[i].index
        /\ corrected[i].content = input.cues[i].content
        /\ corrected[i].start = correct_time(input.cues[i].start, coefficients.angular,
                                             coefficients.linear)
        /\ corrected[i].end = correct_time(input.cues[i].end, coefficients.angular,
                                           coefficients.linear)

\* every cue of the file was corrected, after a search that matched a cue
C31_Witness ==
    /\ Len(corrected) = 3
    /\ Len(input.cues) = 3
    /\ corrected[2].start # input.cues[2].start
    /\ subList = input.cues
    /\ lineMatch # None

\* C32: perform_sync runs for the manual correction only in the handler of
\* -SYNC- with a subtitle file selected, and the handler of -SYNC- with a
\* subtitle file selected does not end without having run it.
C32_ManualSyncOnlyOnSync ==
    /\ apc = "perform_sync" => (caller = "SYNC" /\ filename # NoFile)
    /\ (apc = "handler_done" /\ caller = "SYNC" /\ filename # NoFile) =>
           sync_result # not_returned

\* C33: when both searches of one operation are accepted, the subtitle
\* times of the two anchors differ, and a correction computed from the
\* anchors does not divide by zero.
C33_AnchorsNotDegenerate ==
    results.success =>
        /\ results.btime2 # results.etime2
        /\ caller = "batch" => coefficients.raised # "ZeroDivisionError"

\* C34: the video time of an anchor that auto_sub_sync returns is at least 0
\* and at most the media duration less the window duration, and its
\* subtitle time is at least 0.
C34_AnchorTimesInRange ==
    result # <<>> =>
        /\ result[1] >= 0
        /\ result[1] <= duration - values.SR
        /\ result[2] >= 0

\* C35: when exact mode returned a cue for a candidate, fuzzy mode on the
\* same candidate, cue list, corpus and min_words returns the same cue with
\* the same fraction in the cue and the fraction 0 in the candidate.
C35_FuzzyAgreesWithExact ==
    exact_match_returned =>
        LET m == find_subtitle_match(text, subList, subLowerAlpha, TRUE, values.words)
        IN  /\ m.line = lineMatch
            /\ frac_eq(m.indFrac, indFrac)
            /\ m.indFrac2[1] = 0

\* C36: a cue with start <= end that linear_correct_subs yields under a scale
\* of at least 0 has start <= end, so that only a negative scale gives a cue
\* with start > end, and linear_correct_subs yields every cue it drew with
\* the corrected times, an inverted cue as well.
C36_ScaleSignDecidesOrder ==
    /\ Len(corrected) <= Len(input.cues)
    /\ \A i \in 1..Len(corrected) :
        /\ (input.cues[i].start <= input.cues[i].end /\ coefficients.angular[1] >= 0) =>
               corrected[i].start <= corrected[i].end
        /\ corrected[i].start =
               correct_time(input.cues[i].start, coefficients.angular, coefficients.linear)
        /\ corrected[i].end =
               correct_time(input.cues[i].end, coefficients.angular, coefficients.linear)

\* under a negative scale a cue with start < end is yielded with start > end
inverted_yielded ==
    /\ coefficients.angular[1] < 0
    /\ \E i \in 1..Len(corrected) :
           input.cues[i].start < input.cues[i].end /\ corrected[i].start > corrected[i].end

C36_Witness ==
    /\ pc = "sync_done"
    /\ Len(corrected) = MaxCorrCues
    /\ inverted_yielded

\* C37: run_auto_sync_threaded returns only when its worker thread has
\* ended, the result dictionary is not written after the return, a
\* dictionary with success = True holds four non-empty timestamps, and after
\* a return without success the caller saves no times, builds no
\* arguments, fills no field and does not run perform_sync.
runner_returns == apc = "polling" /\ apc' # "polling"

timestamps_present ==
    /\ results.btime1 # <<>>
    /\ results.btime2 # <<>>
    /\ results.etime1 # <<>>
    /\ results.etime2 # <<>>

timestamps_unused ==
    /\ apc = "handler_done"
    /\ savedtimes = <<>>
    /\ argv = <<>>
    /\ sync_result = not_returned
    /\ ~output.exists
    /\ <<window.F1, window.T1, window.F2, window.T2>> =
           <<values.F1, values.T1, values.F2, values.T2>>

C37_ReturnsAfterWorker ==
    /\ [][/\ runner_returns => (pc = "thread_end" /\ results' = results)
          /\ apc \notin {"event", "polling"} => results' = results]_vars
    /\ [](results.success => timestamps_present)
    /\ []((apc \notin {"event", "polling"} /\ ~results.success) => timestamps_unused)

C37_Witness ==
    /\ caller = "batch"
    /\ apc = "handler_done"
    /\ results.success
    /\ timestamps_present
    /\ sync_result.success

\* C38: the second search of an operation is called only when the first has
\* returned, a search extracts audio only in the worker of the pair the
\* batch loop is at, while its caller polls and no later pair was started,
\* and a worker is started and the batch loop takes its next pair only when
\* no worker is running: at most one search uses the audio file at a time.
worker_running == pc \in {"entry", "loop", "after_loop", "done", "raised"}

worker_started == apc = "event" /\ apc' = "polling"

C38_SearchesOneAtATime ==
    [][/\ (search_no = 1 /\ search_no' = 2) => pc = "done"
       /\ probed_in_step =>
              /\ apc = "polling"
              /\ worker_running
              /\ batch.started[batch.i] = 1
              /\ \A j \in (batch.i + 1)..Len(batch.file_pairs) : batch.started[j] = 0
       /\ (worker_started \/ batch.i' # batch.i) => ~worker_running]_vars

C38_Witness ==
    /\ batch.i = 2
    /\ batch.started = <<1, 1>>
    /\ apc = "polling"
    /\ search_no = 2
    /\ probes > 0

\* C39: in process_batch_sync, successful + failed is the number of pairs
\* processed so far, details holds one entry for each of them in the order
\* of processing, errors holds one entry for each failure, and when the
\* function returns successful + failed = total_files = the number of pairs.
pairs_processed == IF apc \in {"handler_done", "returned"} THEN batch.i ELSE batch.i - 1

count_status(status) ==
    Cardinality({k \in 1..Len(batch_results.details) :
                    batch_results.details[k].status = status})

C39_BatchAccounting ==
    /\ batch_results.successful + batch_results.failed = pairs_processed
    /\ Len(batch_results.details) = pairs_processed
    /\ \A k \in 1..Len(batch_results.details) :
           <<batch_results.details[k].srt_file, batch_results.details[k].video_file>>
               = batch.file_pairs[k]
    /\ count_status("success") = batch_results.successful
    /\ count_status("failed") = batch_results.failed
    /\ Len(batch_results.errors) = batch_results.failed
    /\ apc = "returned" =>
           /\ batch_results.successful + batch_results.failed = batch_results.total_files
           /\ batch_results.total_files = Len(batch.file_pairs)

\* the function returned after two pairs, one synced and one failed in
\* perform_sync
C39_Witness ==
    /\ apc = "returned"
    /\ batch_results.total_files = 2
    /\ batch_results.successful = 1
    /\ batch_results.failed = 1
    /\ batch.synced = <<1, 1>>

=============================================================================
